---- MODULE Spec2Model ----
(***************************************************************************)
(* A model of graphql-query-toolkit: the endpoint configuration compiler   *)
(* (src/src/core/codegen.ts), the cache utilities factory                  *)
(* (src/src/core/utils.ts) and the naming inference of the cache-utils     *)
(* plugin (src/src/cli.js).  Each component has its own specification      *)
(* over the shared variables; the variables of the other components stay   *)
(* at their idle values.                                                   *)
(***************************************************************************)
EXTENDS Integers, Sequences, FiniteSets, TLC

VARIABLES
  \* createCodegenConfig (codegen.ts)
  options,      \* the CodegenOptions argument
  locals,       \* the destructured options with their defaults applied
  generates,    \* the `generates` object: insertion-ordered <<key, target>> pairs
  cgIndex,      \* position of the forEach over Object.entries(endpoints)
  cgPc,         \* position inside createCodegenConfig
  plan,         \* the returned CodegenConfig
  previousPlan, \* the plan an earlier call with the same options returned
  processEnv,   \* process.env: variable name -> value or undefined
  dotenvFile,   \* the .env file of the working directory, undefined when missing
  ioLog,        \* the filesystem and network operations performed so far
  \* createUtilsFactory (utils.ts)
  utilsConfig,  \* the UtilsConfig argument {queryKeys, groups}
  utils,        \* the object createUtils(queryClient) returned
  cache,        \* the query cache behind queryClient: key -> entry
  lastCall,     \* the last call made on a facade entry, with what it did
  uPc,          \* position of the utils component
  invocations,  \* the invalidate / refetch / cancel invocations in flight
  otherUtils,   \* a second Utils object
  otherConfig,  \* the UtilsConfig of the factory that built it
  otherClient,  \* the client it wraps: "same" as utils, "other" or "none"
  otherCache,   \* the query cache behind the other client
  \* naming inference of the cache-utils plugin (cli.js)
  opName,       \* the operation name handed to extractServiceName
  inferred,     \* the service name it returned
  shortName,    \* the method name extractShortName returned
  nPc,          \* position of the naming component
  \* the cache-utils plugin walking the documents (cli.js 37-62)
  documents,    \* the documents handed to the plugin
  docIndex,     \* position of documents.forEach
  defIndex,     \* position of visit() inside the current document
  pluginOperations, \* the `operations` array
  pluginGroups, \* the `groups` object: insertion-ordered <<serviceName, names>>
  pPc,          \* position of the plugin
  \* the fetcher embedded in the react-query target (codegen.ts 66-102)
  fetcherEndpoint, \* config.gatewayEndpoint interpolated into the fetcher
  fetcherArgs,  \* the arguments (query, variables, options) of fetcher
  request,      \* the request handed to fetch, undefined before the call
  response,     \* the body res.json() resolves with
  settled,      \* how the returned operation settled
  fPc,          \* position of the fetcher
  \* the codegen runner script (run-codegen, part_002 196-317)
  runnerOptions, \* the options object the CLI entry parsed from argv
  fileSystem,   \* the paths that exist
  generator,    \* the graphql-codegen child process
  formatter,    \* the biome child process
  exitStatus,   \* the exit status of the run, undefined while it runs
  rPc           \* position of the runner

envVars == <<processEnv, dotenvFile, ioLog>>

codegenVars == <<options, locals, generates, cgIndex, cgPc, plan, previousPlan, envVars>>

otherVars == <<otherUtils, otherConfig, otherClient, otherCache>>

utilsVars == <<utilsConfig, utils, cache, lastCall, uPc, invocations, otherVars>>

namingVars == <<opName, inferred, shortName, nPc>>

pluginVars == <<documents, docIndex, defIndex, pluginOperations, pluginGroups, pPc>>

fetcherVars == <<fetcherEndpoint, fetcherArgs, request, response, settled, fPc>>

runnerVars == <<runnerOptions, fileSystem, generator, formatter, exitStatus, rPc>>

vars == <<codegenVars, utilsVars, namingVars, pluginVars, fetcherVars, runnerVars>>

(***************************************************************************)
(* Optional values.  A value that may be undefined is a set: {} is         *)
(* undefined, {v} is the value v.                                          *)
(***************************************************************************)
Undefined == {}

Some(v) == {v}

\* `const { x = d } = options`: the default applies exactly when x is undefined.
OrDefault(opt, d) == IF opt = Undefined THEN d ELSE CHOOSE v \in opt : TRUE

(***************************************************************************)
(* Bounds of the codegen model.                                            *)
(***************************************************************************)
MaxEndpoints == 2

\* Endpoint names: any string may be a key of the endpoints map.  The set holds
\* names made of the very path segments the output keys are built from.
EndpointNames == {"a", "b", "a/plugins", "..", "../README.md", ""}

BaseOutputDirs == {Undefined, Some("out"), Some("")}

ReactQueryVersions == {Undefined, Some(4)}

AppNames == {Undefined, Some("portal")}

\* EndpointConfig values (codegen.ts 9-18); headers is optional.
EndpointConfigs ==
  { [schema |-> "https://one/graphql", headers |-> Undefined,
     documentsPath |-> "src/one/**/*.graphql", gatewayEndpoint |-> "https://gw/one"],
    [schema |-> "https://two/graphql", headers |-> Some("{x-api-key: k}"),
     documentsPath |-> "src/two/**/*.graphql", gatewayEndpoint |-> "https://gw/two"] }

\* Object.entries(endpoints): <<name, config>> pairs in insertion order, the
\* names pairwise distinct (they are the keys of one object).
EndpointEntries ==
  { s \in UNION { [1..n -> EndpointNames \X EndpointConfigs] : n \in 0..MaxEndpoints } :
      \A i, j \in DOMAIN s : i # j => s[i][1] # s[j][1] }

CodegenOptions ==
  [endpoints : EndpointEntries, baseOutputDir : BaseOutputDirs,
   reactQueryVersion : ReactQueryVersions, appName : AppNames]

(***************************************************************************)
(* JavaScript objects as insertion-ordered <<key, value>> sequences.       *)
(***************************************************************************)
ObjectKeys(obj) == [i \in DOMAIN obj |-> obj[i][1]]

HasKey(obj, key) == \E i \in DOMAIN obj : obj[i][1] = key

\* obj[key] = value: an existing key keeps its place and takes the new value,
\* a new key is appended.
Put(obj, key, value) ==
  IF HasKey(obj, key)
    THEN [i \in DOMAIN obj |-> IF obj[i][1] = key THEN <<key, value>> ELSE obj[i]]
    ELSE Append(obj, <<key, value>>)

RECURSIVE Join(_, _)
\* Array.prototype.join
Join(names, sep) ==
  IF Len(names) = 0 THEN ""
  ELSE IF Len(names) = 1 THEN names[1]
  ELSE names[1] \o sep \o Join(Tail(names), sep)

(***************************************************************************)
(* createCodegenConfig                                                     *)
(***************************************************************************)
DefaultBaseOutputDir == "src/libs/gql/__gen__"

DefaultReactQueryVersion == 5

DefaultAppName_other == "my app"

DefaultAppName == "your app"

\* join(__dirname, '../plugins/<file>'): a fixed path of the installation.
PluginPath(file) == "<dirname>/../plugins/" \o file

OutputDir(baseOutputDir, name) == baseOutputDir \o "/" \o name

PluginsDirectory(outputDir) == outputDir \o "/plugins"

ClientPresetKey(outputDir) == outputDir \o "/"

GraphqlRequestKey(pluginsDirectory) == pluginsDirectory \o "/graphql-request.ts"

ReactQueryKey(pluginsDirectory) == pluginsDirectory \o "/react-query.ts"

CacheUtilsKey_collide(outputDir) == outputDir \o "/"

CacheUtilsKey(outputDir) == outputDir \o "/cache-utils.ts"

ReadmeKey(baseOutputDir) == baseOutputDir \o "/../README.md"

\* { [config.schema]: { headers: config.headers || {} } }
SchemaOf(config) ==
  [url |-> config.schema, headers |-> OrDefault(config.headers, "{}")]

FetcherText_first(gatewayEndpoint) ==
  "function fetcher(query, variables, options) { let endpoint = \""
    \o options.endpoints[1][2].gatewayEndpoint
    \o "\"; ... endpoint = options.endpoint || \""
    \o options.endpoints[1][2].gatewayEndpoint \o "\"; ... }"

\* The fetcher source text: the template with config.gatewayEndpoint
\* interpolated at its two places (lines 70 and 75).
FetcherText(gatewayEndpoint) ==
  "function fetcher(query, variables, options) { let endpoint = \""
    \o gatewayEndpoint \o "\"; ... endpoint = options.endpoint || \""
    \o gatewayEndpoint \o "\"; ... }"

ClientPresetTarget(config) ==
  [preset |-> "client", schema |-> SchemaOf(config),
   documents |-> <<config.documentsPath>>]

GraphqlRequestTarget(config) ==
  [schema |-> SchemaOf(config), documents |-> <<config.documentsPath>>,
   plugins |-> <<"typescript", "typescript-operations", "typescript-graphql-request">>]

ReactQueryTarget(config, reactQueryVersion) ==
  [schema |-> SchemaOf(config), documents |-> <<config.documentsPath>>,
   plugins |-> <<"typescript", "typescript-operations", "typescript-react-query">>,
   config |-> [fetcher |-> FetcherText(config.gatewayEndpoint),
               reactQueryVersion |-> reactQueryVersion,
               errorType |-> "string"]]

CacheUtilsTarget(name, config) ==
  [schema |-> SchemaOf(config), documents |-> <<config.documentsPath>>,
   plugins |-> <<PluginPath("cache-utils.plugin.cjs")>>,
   config |-> [serviceName |-> name]]

ReadmeTarget(firstEndpoint, endpointNames, appName) ==
  [schema |-> SchemaOf(firstEndpoint),
   plugins |-> <<PluginPath("readme-generator.plugin.cjs")>>,
   config |-> [appName |-> IF Len(endpointNames) # 0
                             THEN appName \o " (Multi-endpoint: "
                                    \o Join(endpointNames, ", ") \o ")"
                             ELSE appName,
               endpoints |-> endpointNames,
               isMultiEndpoint |-> (Len(endpointNames) # 0)]]

\* One iteration of the forEach (lines 42-123): the four assignments.
EmitEndpoint(gen, baseOutputDir, reactQueryVersion, name, config) ==
  LET outputDir == OutputDir(baseOutputDir, name)
      pluginsDirectory == PluginsDirectory(outputDir)
      g1 == Put(gen, ClientPresetKey(outputDir), ClientPresetTarget(config))
      g2 == Put(g1, GraphqlRequestKey(pluginsDirectory), GraphqlRequestTarget(config))
      g3 == Put(g2, ReactQueryKey(pluginsDirectory),
                ReactQueryTarget(config, reactQueryVersion))
  IN  Put(g3, CacheUtilsKey(outputDir), CacheUtilsTarget(name, config))

\* Object.values(endpoints)[0]
FirstEndpoint(endpoints) ==
  IF Len(endpoints) = 0 THEN Undefined ELSE Some(endpoints[1][2])

Truthy_always(v) == TRUE

\* `if (firstEndpoint)`: an EndpointConfig object is truthy, undefined is not.
Truthy(v) == v # Undefined

(***************************************************************************)
(* dotenv.config() (line 35): reads the .env file of the working directory *)
(* and copies into process.env every variable of the file that process.env *)
(* does not define yet; a missing file is reported in the return value,    *)
(* which the code drops.                                                   *)
(***************************************************************************)
EnvKeys == {"GRAPHQL_API_KEY"}

\* process.env when createCodegenConfig is first called: the variables of the
\* .env file are not exported by the shell.
InitialProcessEnv == [k \in EnvKeys |-> Undefined]

DotenvFiles == {Undefined, Some([k \in EnvKeys |-> Some("from-file")])}

DotenvConfig_pure(env, file) == env

DotenvConfig(env, file) ==
  IF file = Undefined THEN env
  ELSE LET parsed == CHOOSE f \in file : TRUE
       IN  [k \in EnvKeys |-> IF env[k] = Undefined THEN parsed[k] ELSE env[k]]

ReadFileSync(log, path) == Append(log, [op |-> "readFileSync", path |-> path])

(***************************************************************************)
(* Idle values of the components a specification does not run.             *)
(***************************************************************************)
NoArg == [tag |-> "undefined", props |-> [k \in {"id", "name"} |-> "<absent>"]]

NoCall ==
  [method |-> "none", clientMethod |-> "none", group |-> "", entry |-> <<>>,
   op |-> <<>>, filters |-> NoArg, variables |-> NoArg, data |-> {},
   targets |-> {}, result |-> {}, threw |-> FALSE, before |-> <<>>,
   clientFailure |-> {}, failure |-> {}, via |-> "utils", updater |-> "none",
   after |-> <<>>]

NoProcess == [state |-> "none", code |-> {}, args |-> <<>>]

RunnerIdle ==
  /\ runnerOptions = [watch |-> {}, config |-> {}, format |-> {}]
  /\ fileSystem = {}
  /\ generator = NoProcess
  /\ formatter = NoProcess
  /\ exitStatus = {}
  /\ rPc = "idle"

OtherIdle ==
  /\ invocations = <<>>
  /\ otherUtils = <<>>
  /\ otherConfig = [queryKeys |-> <<>>, groups |-> <<>>]
  /\ otherClient = "none"
  /\ otherCache = <<>>

UtilsIdle ==
  /\ utilsConfig = [queryKeys |-> <<>>, groups |-> <<>>]
  /\ utils = <<>>
  /\ cache = <<>>
  /\ lastCall = NoCall
  /\ uPc = "idle"
  /\ OtherIdle

NamingIdle ==
  /\ opName = <<>>
  /\ inferred = <<>>
  /\ shortName = <<>>
  /\ nPc = "idle"

NoLocals == [baseOutputDir |-> "", reactQueryVersion |-> 0, appName |-> ""]

CodegenIdle ==
  /\ locals = NoLocals
  /\ generates = <<>>
  /\ cgIndex = 0
  /\ plan = Undefined
  /\ previousPlan = Undefined
  /\ ioLog = <<>>

EnvIdle ==
  /\ processEnv = InitialProcessEnv
  /\ dotenvFile = Undefined

PluginIdle ==
  /\ documents = <<>>
  /\ docIndex = 0
  /\ defIndex = 0
  /\ pluginOperations = <<>>
  /\ pluginGroups = <<>>
  /\ pPc = "idle"

NoFetcherArgs == [query |-> "", variables |-> Undefined, options |-> Undefined]

Pending == [status |-> "pending", value |-> Undefined]

FetcherIdle ==
  /\ fetcherEndpoint = ""
  /\ fetcherArgs = NoFetcherArgs
  /\ request = Undefined
  /\ response = Undefined
  /\ settled = Pending
  /\ fPc = "idle"

CodegenInit ==
  /\ RunnerIdle
  /\ options \in CodegenOptions
  /\ cgPc = "call"
  /\ CodegenIdle
  /\ processEnv = InitialProcessEnv
  /\ dotenvFile \in DotenvFiles
  /\ UtilsIdle
  /\ NamingIdle
  /\ PluginIdle
  /\ FetcherIdle

\* Lines 33-40: dotenv.config(), the destructuring with defaults, generates = {}.
Destructure ==
  /\ cgPc = "call"
  /\ ioLog' = ReadFileSync(ioLog, ".env")
  /\ processEnv' = DotenvConfig(processEnv, dotenvFile)
  /\ locals' = [baseOutputDir |-> OrDefault(options.baseOutputDir, DefaultBaseOutputDir),
                reactQueryVersion |->
                  OrDefault(options.reactQueryVersion, DefaultReactQueryVersion),
                appName |-> OrDefault(options.appName, DefaultAppName)]
  /\ generates' = <<>>
  /\ cgIndex' = 1
  /\ cgPc' = "forEach"
  /\ UNCHANGED <<options, plan, previousPlan, dotenvFile, utilsVars, namingVars, pluginVars, fetcherVars, runnerVars>>

\* Lines 42-123: the forEach callback for the next entry.
ForEachEndpoint ==
  /\ cgPc = "forEach"
  /\ cgIndex <= Len(options.endpoints)
  /\ generates' = EmitEndpoint(generates, locals.baseOutputDir, locals.reactQueryVersion,
                               options.endpoints[cgIndex][1], options.endpoints[cgIndex][2])
  /\ cgIndex' = cgIndex + 1
  /\ UNCHANGED <<options, locals, cgPc, plan, previousPlan, envVars, utilsVars, namingVars, pluginVars, fetcherVars, runnerVars>>

\* Lines 125-139: the README target, emitted when there is a first endpoint.
\* Reading firstEndpoint.schema of an undefined firstEndpoint is a TypeError.
ReadmeStep ==
  /\ cgPc = "forEach"
  /\ cgIndex > Len(options.endpoints)
  /\ LET firstEndpoint == FirstEndpoint(options.endpoints)
         endpointNames == ObjectKeys(options.endpoints)
     IN  IF Truthy(firstEndpoint)
           THEN IF firstEndpoint = Undefined
                  THEN /\ cgPc' = "threw"
                       /\ UNCHANGED generates
                  ELSE /\ generates' =
                            Put(generates, ReadmeKey(locals.baseOutputDir),
                                ReadmeTarget(OrDefault(firstEndpoint, Undefined),
                                             endpointNames, locals.appName))
                       /\ cgPc' = "return"
           ELSE /\ cgPc' = "return"
                /\ UNCHANGED generates
  /\ UNCHANGED <<options, locals, cgIndex, plan, previousPlan, envVars, utilsVars, namingVars, pluginVars, fetcherVars, runnerVars>>

\* Lines 141-144.
Return ==
  /\ cgPc = "return"
  /\ plan' = Some([ignoreNoDocuments |-> TRUE, generates |-> generates])
  /\ cgPc' = "done"
  /\ UNCHANGED <<options, locals, generates, cgIndex, previousPlan, envVars, utilsVars, namingVars, pluginVars, fetcherVars, runnerVars>>

\* The caller calls createCodegenConfig once more with the same options, in
\* the same process.
CallAgain ==
  /\ cgPc = "done"
  /\ previousPlan = Undefined
  /\ previousPlan' = plan
  /\ plan' = Undefined
  /\ locals' = NoLocals
  /\ generates' = <<>>
  /\ cgIndex' = 0
  /\ cgPc' = "call"
  /\ UNCHANGED <<options, envVars, utilsVars, namingVars, pluginVars, fetcherVars, runnerVars>>

CodegenNext == Destructure \/ ForEachEndpoint \/ ReadmeStep \/ Return \/ CallAgain

Spec == CodegenInit /\ [][CodegenNext]_vars

\* The returned plan's generates object.
PlanGenerates == (CHOOSE p \in plan : TRUE).generates

(***************************************************************************)
(* C1: for a non-empty endpoints map the returned plan has exactly         *)
(* 4 * |endpoints| + 1 generation targets with pairwise distinct keys: the *)
(* four keys {base}/{name}/, {base}/{name}/plugins/graphql-request.ts,     *)
(* {base}/{name}/plugins/react-query.ts, {base}/{name}/cache-utils.ts of   *)
(* every endpoint name and the one README key.                             *)
(***************************************************************************)
C1_PlanKeys ==
  (cgPc = "done" /\ Len(options.endpoints) > 0) =>
    LET base == locals.baseOutputDir
        n == Len(options.endpoints)
        keys == ObjectKeys(PlanGenerates)
        KeysOf(name) == { base \o "/" \o name \o "/",
                          base \o "/" \o name \o "/plugins/graphql-request.ts",
                          base \o "/" \o name \o "/plugins/react-query.ts",
                          base \o "/" \o name \o "/cache-utils.ts" }
        readme == base \o "/../README.md"
    IN  /\ Len(keys) = 4 * n + 1
        /\ \A i, j \in DOMAIN keys : i # j => keys[i] # keys[j]
        /\ { keys[i] : i \in DOMAIN keys } =
             UNION { KeysOf(options.endpoints[i][1]) : i \in 1..n } \cup {readme}
        /\ \A i \in 1..n : Cardinality(KeysOf(options.endpoints[i][1])) = 4
        /\ \A i, j \in 1..n : i # j =>
             KeysOf(options.endpoints[i][1]) \cap
               (KeysOf(options.endpoints[j][1]) \cup {readme}) = {}

\* A plan returned for two endpoints whose names nest ("a" and "a/plugins").
C1_Witness ==
  /\ cgPc = "done"
  /\ Len(options.endpoints) = 2
  /\ options.endpoints[1][1] = "a"
  /\ options.endpoints[2][1] = "a/plugins"
  /\ Len(PlanGenerates) = 9

(***************************************************************************)
(* C2: with an empty endpoints map createCodegenConfig does not fail and   *)
(* returns a plan with no generation target: the README target is omitted. *)
(***************************************************************************)
C2_EmptyEndpoints ==
  (Len(options.endpoints) = 0) =>
    /\ cgPc # "threw"
    /\ cgPc = "done" => (plan # Undefined /\ Len(PlanGenerates) = 0)

\* A plan returned for the empty endpoints map.
C2_Witness ==
  /\ cgPc = "done"
  /\ Len(options.endpoints) = 0
  /\ plan = Some([ignoreNoDocuments |-> TRUE, generates |-> <<>>])

(***************************************************************************)
(* Cache utilities factory (utils.ts)                                      *)
(*                                                                         *)
(* Strings that the code takes apart (operation names) are sequences of    *)
(* one-character strings.                                                  *)
(***************************************************************************)
UpperCase ==
  <<"A", "B", "C", "D", "E", "F", "G", "H", "I", "J", "K", "L", "M",
    "N", "O", "P", "Q", "R", "S", "T", "U", "V", "W", "X", "Y", "Z">>

LowerCase ==
  <<"a", "b", "c", "d", "e", "f", "g", "h", "i", "j", "k", "l", "m",
    "n", "o", "p", "q", "r", "s", "t", "u", "v", "w", "x", "y", "z">>

\* String.prototype.toLowerCase on one character.
ToLowerChar(c) ==
  IF \E i \in DOMAIN UpperCase : UpperCase[i] = c
    THEN LowerCase[CHOOSE i \in DOMAIN UpperCase : UpperCase[i] = c]
    ELSE c

ToLowerCase(str) == [i \in DOMAIN str |-> ToLowerChar(str[i])]

\* operationName.charAt(0).toLowerCase() + operationName.slice(1)  (line 33)
CamelCaseName(operationName) ==
  IF Len(operationName) = 0 THEN <<>>
  ELSE <<ToLowerChar(operationName[1])>> \o Tail(operationName)

GetUser == <<"G", "e", "t", "U", "s", "e", "r">>

GetPost == <<"G", "e", "t", "P", "o", "s", "t">>

OperationNames == {GetUser, GetPost}

\* An operation named getUser: a name that differs from GetUser in the case of
\* its first character only.
LowerGetUser == <<"g", "e", "t", "U", "s", "e", "r">>

(***************************************************************************)
(* Variables and filters.  An object is a function from PropertyKeys to a  *)
(* property value; Absent marks a key the object does not have, and        *)
(* "undefined" is the JavaScript value undefined held by a key the object  *)
(* has.  An argument is tagged: it may be undefined instead of an object.  *)
(* Property values are primitives, for which === is equality.              *)
(***************************************************************************)
PropertyKeys == {"id", "name"}

Absent == "<absent>"

UndefinedValue == "undefined"

Obj(props) == [tag |-> "object", props |-> props]

NoProps == [k \in PropertyKeys |-> Absent]

UndefinedArg == [tag |-> "undefined", props |-> NoProps]

NullArg == [tag |-> "null", props |-> NoProps]

Props(id, name) == [k \in PropertyKeys |-> IF k = "id" THEN id ELSE name]

\* The variables a query is stored or addressed under: none, {id: 1},
\* {id: 2}, {id: 1, name: 1}.
VariablesArgs ==
  { UndefinedArg, Obj(Props("1", Absent)), Obj(Props("2", Absent)),
    Obj(Props("1", "1")) }

\* The filters passed to invalidate, refetch and cancel: none, {}, {id: 1},
\* {id: 2}, {id: 1, name: 1}, {id: undefined}, {name: undefined}.
FiltersArgs ==
  { UndefinedArg, Obj(NoProps), Obj(Props("1", Absent)), Obj(Props("2", Absent)),
    Obj(Props("1", "1")), Obj(Props(UndefinedValue, Absent)),
    Obj(Props(Absent, UndefinedValue)) }

\* Cached data values, and the data handed to setData.
DataValues == {"A", "B"}

DataArgs == { Some(d) : d \in DataValues }

\* The number of queries the cache holds at most.
MaxEntries == 2

\* Object.keys(filters)
OwnKeys(object) == { k \in PropertyKeys : object.props[k] # Absent }

\* variables?.[key]: undefined when variables is undefined or null, or lacks
\* the key.
OptionalGet(variables, key) ==
  IF variables.tag \in {"undefined", "null"} THEN UndefinedValue
  ELSE IF variables.props[key] = Absent THEN UndefinedValue
  ELSE variables.props[key]

\* `filters && Object.keys(filters).length > 0`  (lines 40, 59, 92)
HasFilters(filters) ==
  /\ filters.tag # "undefined"
  /\ Cardinality(OwnKeys(filters)) > 0

(***************************************************************************)
(* createQueryKeys (lines 12-20)                                           *)
(***************************************************************************)
QueryKeyOf_always2(operationName, variables) == <<operationName, variables>>

\* The key function of one operation (line 16).
QueryKeyOf(operationName, variables) ==
  IF variables.tag = "undefined" THEN <<operationName>>
  ELSE <<operationName, variables>>

\* keys[operationName] is the closure over operationName: the factory maps a
\* name to the name its key function is bound to.
CreateQueryKeys(operations) ==
  [name \in { operations[i] : i \in DOMAIN operations } |-> name]

(***************************************************************************)
(* The query client (@tanstack/react-query) as the facade calls it.  The   *)
(* cache maps a query key to the query's data.  What the client does to    *)
(* the queries a filter selects (marking them stale, refetching them,      *)
(* aborting their requests) is the library's: the model records the client *)
(* method the facade called and the queries its filter selects.            *)
(***************************************************************************)
\* query.queryKey[1]
KeyVariables(queryKey) == IF Len(queryKey) >= 2 THEN queryKey[2] ELSE UndefinedArg

MatchQueryKey_all(queries, queryKey) == DOMAIN queries

\* The queries a filter {queryKey} selects: those whose key starts with the
\* segments of queryKey.  A predicate given with it is applied to these.
MatchQueryKey(queries, queryKey) ==
  { k \in DOMAIN queries :
      /\ Len(k) >= Len(queryKey)
      /\ \A i \in DOMAIN queryKey : k[i] = queryKey[i] }

\* getQueryData(key): the data held at exactly this key, or undefined.
GetQueryData(queries, queryKey) ==
  IF queryKey \in DOMAIN queries THEN queries[queryKey].data ELSE Undefined

SetQueryData_operation(queries, queryKey, data) ==
  [k \in DOMAIN queries \cup {queryKey} |->
     IF k[1] = queryKey[1] THEN [data |-> data] ELSE queries[k]]

\* The updaters handed to setData: swap gives "A" for undefined and for "B",
\* and "B" for "A".
Updaters == {"swap"}

\* setQueryData(key, updater) stores updater(previous data at the key).
FunctionalUpdate(updater, previous) ==
  IF previous = Some("A") THEN Some("B") ELSE Some("A")

\* setQueryData(key, data): the data is written at exactly this key.
SetQueryData(queries, queryKey, data) ==
  [k \in DOMAIN queries \cup {queryKey} |->
     IF k = queryKey THEN [data |-> data] ELSE queries[k]]

(***************************************************************************)
(* createUtilsFactory / createUtils (lines 22-112)                         *)
(***************************************************************************)
\* The configurations: every listed operation has a key function; or a
\* group lists GetPost, for which queryKeys has no entry; or a group lists
\* GetUser and getUser, and another group lists nothing.
UtilsConfigs ==
  { [queryKeys |-> CreateQueryKeys(<<GetUser, GetPost>>),
     groups |-> << <<"users", <<GetUser>>>>, <<"posts", <<GetPost>>>> >>],
    [queryKeys |-> CreateQueryKeys(<<GetUser>>),
     groups |-> << <<"users", <<GetUser, GetPost>>>> >>],
    [queryKeys |-> CreateQueryKeys(<<GetUser, LowerGetUser>>),
     groups |-> << <<"users", <<GetUser, LowerGetUser>>>>, <<"empty", <<>>>> >>] }

\* utils[groupName] = {} and one assignment per operation name (lines 30-35):
\* a later operation with the same camel-cased name replaces the earlier one.
GroupUtils(operationNames) ==
  [c \in { CamelCaseName(operationNames[i]) : i \in DOMAIN operationNames } |->
     LET last == CHOOSE i \in DOMAIN operationNames :
                   /\ CamelCaseName(operationNames[i]) = c
                   /\ \A j \in DOMAIN operationNames :
                        CamelCaseName(operationNames[j]) = c => j <= i
     IN  operationNames[last]]

\* The utils object: group name -> camel-cased name -> the operation name the
\* five closures of that entry are bound to.
CreateUtils(groups) ==
  [g \in { groups[i][1] : i \in DOMAIN groups } |->
     GroupUtils(groups[CHOOSE i \in DOMAIN groups : groups[i][1] = g][2])]

InvalidatePredicate_some(filters, queryKey) ==
  \E key \in OwnKeys(filters) :
    OptionalGet(KeyVariables(queryKey), key) = filters.props[key]

\* The predicate of invalidate (lines 43-46):
\* Object.entries(filters).every(([key, value]) => variables?.[key] === value)
InvalidatePredicate(filters, queryKey) ==
  \A key \in OwnKeys(filters) :
    OptionalGet(KeyVariables(queryKey), key) = filters.props[key]

RefetchPredicate_name(filters, queryKey) ==
  \A key \in OwnKeys(filters) \ {"name"} :
    OptionalGet(KeyVariables(queryKey), key) = filters.props[key]

\* The predicate of refetch (lines 62-65).
RefetchPredicate(filters, queryKey) ==
  \A key \in OwnKeys(filters) :
    OptionalGet(KeyVariables(queryKey), key) = filters.props[key]

\* The predicate of cancel (lines 95-98).
CancelPredicate(filters, queryKey) ==
  \A key \in OwnKeys(filters) :
    OptionalGet(KeyVariables(queryKey), key) = filters.props[key]

InvalidateTargets_exact(queries, operationName, filters) ==
  IF HasFilters(filters)
    THEN { k \in DOMAIN queries :
             k[1] = operationName /\ InvalidatePredicate(filters, k) }
    ELSE { k \in DOMAIN queries : k = <<operationName>> }

\* The queries invalidate(filters) hands to invalidateQueries (lines 40-52).
InvalidateTargets(queries, operationName, filters) ==
  IF HasFilters(filters)
    THEN { k \in MatchQueryKey(queries, <<operationName>>) :
             InvalidatePredicate(filters, k) }
    ELSE MatchQueryKey(queries, <<operationName>>)

\* The queries refetch(filters) hands to refetchQueries (lines 59-71).
RefetchTargets(queries, operationName, filters) ==
  IF HasFilters(filters)
    THEN { k \in MatchQueryKey(queries, <<operationName>>) :
             RefetchPredicate(filters, k) }
    ELSE MatchQueryKey(queries, <<operationName>>)

\* The queries cancel(filters) hands to cancelQueries (lines 92-104).
CancelTargets(queries, operationName, filters) ==
  IF HasFilters(filters)
    THEN { k \in MatchQueryKey(queries, <<operationName>>) :
             CancelPredicate(filters, k) }
    ELSE MatchQueryKey(queries, <<operationName>>)

Call(method, clientMethod, g, c) ==
  [NoCall EXCEPT !.method = method, !.clientMethod = clientMethod,
                 !.group = g, !.entry = c, !.op = utils[g][c],
                 !.filters = UndefinedArg, !.variables = UndefinedArg,
                 !.before = cache]

UtilsInit ==
  /\ RunnerIdle
  /\ utilsConfig \in UtilsConfigs
  /\ utils = <<>>
  /\ cache = <<>>
  /\ lastCall = NoCall
  /\ uPc = "factory"
  /\ OtherIdle
  /\ cgPc = "idle"
  /\ options = [endpoints |-> <<>>, baseOutputDir |-> Undefined,
                reactQueryVersion |-> Undefined, appName |-> Undefined]
  /\ CodegenIdle
  /\ EnvIdle
  /\ NamingIdle
  /\ PluginIdle
  /\ FetcherIdle

\* createUtilsFactory(utilsConfig)(queryClient): lines 25-111.
CreateUtilsObject ==
  /\ uPc = "factory"
  /\ utils' = CreateUtils(utilsConfig.groups)
  /\ uPc' = "ready"
  /\ UNCHANGED <<invocations, otherVars, utilsConfig, cache, lastCall, codegenVars, namingVars, pluginVars, fetcherVars, runnerVars>>

\* utils[g][c].invalidate(filters)
Invalidate(g, c, filters) ==
  /\ uPc = "ready"
  /\ LET targets == InvalidateTargets(cache, utils[g][c], filters)
     IN  lastCall' = [Call("invalidate", "invalidateQueries", g, c)
                        EXCEPT !.filters = filters, !.targets = targets]
  /\ uPc' = "called"
  /\ UNCHANGED <<invocations, otherVars, utilsConfig, utils, cache, codegenVars, namingVars, pluginVars, fetcherVars, runnerVars>>

\* utils[g][c].refetch(filters)
Refetch(g, c, filters) ==
  /\ uPc = "ready"
  /\ LET targets == RefetchTargets(cache, utils[g][c], filters)
     IN  lastCall' = [Call("refetch", "refetchQueries", g, c)
                        EXCEPT !.filters = filters, !.targets = targets]
  /\ uPc' = "called"
  /\ UNCHANGED <<invocations, otherVars, utilsConfig, utils, cache, codegenVars, namingVars, pluginVars, fetcherVars, runnerVars>>

\* utils[g][c].cancel(filters)
Cancel(g, c, filters) ==
  /\ uPc = "ready"
  /\ LET targets == CancelTargets(cache, utils[g][c], filters)
     IN  lastCall' = [Call("cancel", "cancelQueries", g, c)
                        EXCEPT !.filters = filters, !.targets = targets]
  /\ uPc' = "called"
  /\ UNCHANGED <<invocations, otherVars, utilsConfig, utils, cache, codegenVars, namingVars, pluginVars, fetcherVars, runnerVars>>

\* What getData(variables) of the entry bound to operationName does (line
\* 78): calling queryKeys[operationName] when queryKeys has no such entry is
\* a TypeError; otherwise the data getQueryData finds at the key.
GetDataOutcome(queries, operationName, variables) ==
  IF operationName \in DOMAIN utilsConfig.queryKeys
    THEN LET key == QueryKeyOf(utilsConfig.queryKeys[operationName], variables)
         IN  [threw |-> FALSE, key |-> {key}, result |-> GetQueryData(queries, key)]
    ELSE [threw |-> TRUE, key |-> {}, result |-> Undefined]

\* utils[g][c].getData(variables)
GetData(g, c, variables) ==
  /\ uPc = "ready"
  /\ LET outcome == GetDataOutcome(cache, utils[g][c], variables)
     IN  lastCall' = [Call("getData", IF outcome.threw THEN "none" ELSE "getQueryData", g, c)
                        EXCEPT !.variables = variables,
                               !.targets = outcome.key,
                               !.result = outcome.result,
                               !.threw = outcome.threw]
  /\ uPc' = "called"
  /\ UNCHANGED <<invocations, otherVars, utilsConfig, utils, cache, codegenVars, namingVars, pluginVars, fetcherVars, runnerVars>>

\* utils[g][c].setData(data, variables)  (line 85)
SetData(g, c, data, variables) ==
  /\ uPc = "ready"
  /\ LET operationName == utils[g][c]
     IN  IF operationName \in DOMAIN utilsConfig.queryKeys
           THEN LET key == QueryKeyOf(utilsConfig.queryKeys[operationName], variables)
                IN  /\ key \in DOMAIN cache \/ Cardinality(DOMAIN cache) < MaxEntries
                    /\ cache' = SetQueryData(cache, key, data)
                    /\ lastCall' = [Call("setData", "setQueryData", g, c)
                                      EXCEPT !.variables = variables, !.data = data,
                                             !.targets = {key}]
           ELSE /\ cache' = cache
                /\ lastCall' = [Call("setData", "none", g, c)
                                  EXCEPT !.variables = variables, !.data = data,
                                         !.threw = TRUE]
  /\ uPc' = "called"
  /\ UNCHANGED <<invocations, otherVars, utilsConfig, utils, codegenVars, namingVars, pluginVars, fetcherVars, runnerVars>>

\* utils[g][c].setData(updater, variables)  (line 85): the updater goes to
\* setQueryData as it came.
SetDataUpdater(g, c, updater, variables) ==
  /\ uPc = "ready"
  /\ LET operationName == utils[g][c]
     IN  IF operationName \in DOMAIN utilsConfig.queryKeys
           THEN LET key == QueryKeyOf(utilsConfig.queryKeys[operationName], variables)
                IN  /\ key \in DOMAIN cache \/ Cardinality(DOMAIN cache) < MaxEntries
                    /\ cache' = SetQueryData(cache, key,
                                   FunctionalUpdate(updater, GetQueryData(cache, key)))
                    /\ lastCall' = [Call("setData/updater", "setQueryData", g, c)
                                      EXCEPT !.variables = variables, !.updater = updater,
                                             !.targets = {key}]
           ELSE /\ cache' = cache
                /\ lastCall' = [Call("setData/updater", "none", g, c)
                                  EXCEPT !.variables = variables, !.updater = updater,
                                         !.threw = TRUE]
  /\ uPc' = "called"
  /\ UNCHANGED <<invocations, otherVars, utilsConfig, utils, codegenVars, namingVars, pluginVars, fetcherVars, runnerVars>>

\* The caller goes on after the call.
Resume ==
  /\ uPc = "called"
  /\ uPc' = "ready"
  /\ lastCall' = NoCall
  /\ UNCHANGED <<invocations, otherVars, utilsConfig, utils, cache, codegenVars, namingVars, pluginVars, fetcherVars, runnerVars>>

\* A generated hook mounts a query of an operation: the cache gets an entry
\* under [operationName] or [operationName, variables], without data yet.
QueryMount(operationName, variables) ==
  /\ uPc = "ready"
  /\ QueryKeyOf(operationName, variables) \notin DOMAIN cache
  /\ Cardinality(DOMAIN cache) < MaxEntries
  /\ cache' = [k \in DOMAIN cache \cup {QueryKeyOf(operationName, variables)} |->
                 IF k \in DOMAIN cache THEN cache[k]
                 ELSE [data |-> Undefined]]
  /\ UNCHANGED <<invocations, otherVars, utilsConfig, utils, lastCall, uPc, codegenVars, namingVars, pluginVars, fetcherVars, runnerVars>>

\* A fetch of a cached query settles with data from the server.
FetchSettled(queryKey, data) ==
  /\ uPc = "ready"
  /\ queryKey \in DOMAIN cache
  /\ cache' = [cache EXCEPT ![queryKey] = [data |-> Some(data)]]
  /\ UNCHANGED <<invocations, otherVars, utilsConfig, utils, lastCall, uPc, codegenVars, namingVars, pluginVars, fetcherVars, runnerVars>>

\* The facade entries of the utils object: <<group name, camel-cased name>>.
FacadeEntries ==
  UNION { { <<g, c>> : c \in DOMAIN utils[g] } : g \in DOMAIN utils }

UtilsNext ==
  \/ CreateUtilsObject
  \/ \E e \in FacadeEntries : \E filters \in FiltersArgs : Invalidate(e[1], e[2], filters)
  \/ \E e \in FacadeEntries : \E filters \in FiltersArgs : Refetch(e[1], e[2], filters)
  \/ \E e \in FacadeEntries : \E filters \in FiltersArgs : Cancel(e[1], e[2], filters)
  \/ \E e \in FacadeEntries : \E variables \in VariablesArgs : GetData(e[1], e[2], variables)
  \/ \E e \in FacadeEntries : \E data \in DataArgs : \E variables \in VariablesArgs :
       SetData(e[1], e[2], data, variables)
  \/ \E e \in FacadeEntries : \E updater \in Updaters : \E variables \in VariablesArgs :
       SetDataUpdater(e[1], e[2], updater, variables)
  \/ Resume
  \/ \E operationName \in OperationNames : \E variables \in VariablesArgs :
       QueryMount(operationName, variables)
  \/ \E queryKey \in DOMAIN cache : \E data \in DataValues :
       FetchSettled(queryKey, data)

SpecUtils == UtilsInit /\ [][UtilsNext]_vars

(***************************************************************************)
(* Reading the recorded call.                                              *)
(***************************************************************************)
\* The queries of the called entry's operation that the cache held.
OperationQueries == { k \in DOMAIN lastCall.before : k[1] = lastCall.op }

\* The value the variables stored in a key hold at a property key (undefined
\* when the key has no variables segment or the variables lack the property).
StoredValue(queryKey, key) ==
  IF Len(queryKey) < 2 THEN UndefinedValue
  ELSE IF queryKey[2].tag # "object" THEN UndefinedValue
  ELSE IF queryKey[2].props[key] = Absent THEN UndefinedValue
  ELSE queryKey[2].props[key]

\* The stored variables have the property.
StoredHas(queryKey, key) ==
  /\ Len(queryKey) = 2
  /\ queryKey[2].tag = "object"
  /\ queryKey[2].props[key] # Absent

FilterKeys == { key \in PropertyKeys : lastCall.filters.props[key] # Absent }

NonEmptyFilters == lastCall.filters.tag = "object" /\ FilterKeys # {}

(***************************************************************************)
(* C3: filter exclusivity.  invalidate(filters) with a non-empty filter    *)
(* mapping never targets, and leaves unchanged, a cache entry of the       *)
(* operation whose stored variables differ from the filter on some filter  *)
(* key (the entry under {id: 2} for the filter {id: 1}).                   *)
(***************************************************************************)
C3_FilterExclusivity ==
  (uPc = "called" /\ lastCall.method = "invalidate" /\ NonEmptyFilters) =>
    \A k \in OperationQueries :
      (\E key \in FilterKeys : StoredValue(k, key) # lastCall.filters.props[key]) =>
        /\ k \notin lastCall.targets
        /\ k \in DOMAIN cache
        /\ cache[k] = lastCall.before[k]

\* invalidate({id: 1}) on a cache holding GetUser under {id: 1} and {id: 2}:
\* the first is targeted, the second is not.
C3_Witness ==
  /\ uPc = "called"
  /\ lastCall.method = "invalidate"
  /\ lastCall.op = GetUser
  /\ lastCall.filters = Obj(Props("1", Absent))
  /\ <<GetUser, Obj(Props("2", Absent))>> \in DOMAIN lastCall.before
  /\ lastCall.targets = { <<GetUser, Obj(Props("1", Absent))>> }

(***************************************************************************)
(* C4: with filters absent or an empty mapping, invalidate targets every   *)
(* cache entry whose key's first segment is the operation name, whatever   *)
(* its variables, the entry stored with no variables included.             *)
(***************************************************************************)
C4_InvalidateAll ==
  (uPc = "called" /\ lastCall.method = "invalidate" /\ ~NonEmptyFilters) =>
    /\ lastCall.clientMethod = "invalidateQueries"
    /\ lastCall.targets = { k \in DOMAIN lastCall.before : k[1] = lastCall.op }

\* invalidate({}) on a cache holding GetUser with no variables and under
\* {id: 2}: both are targeted.
C4_Witness ==
  /\ uPc = "called"
  /\ lastCall.method = "invalidate"
  /\ lastCall.filters = Obj(NoProps)
  /\ lastCall.targets = { <<GetUser>>, <<GetUser, Obj(Props("2", Absent))>> }

(***************************************************************************)
(* C5: for a non-empty filter mapping invalidate selects an entry of the   *)
(* operation iff every filter key is a property of the entry's stored      *)
(* variables with an equal value; a filter key absent from the stored      *)
(* variables never matches, whatever the filter value (undefined           *)
(* included) and also for entries stored without a variables segment.      *)
(***************************************************************************)
C5_AbsentKeyNeverMatches ==
  (uPc = "called" /\ lastCall.method = "invalidate" /\ NonEmptyFilters) =>
    lastCall.targets =
      { k \in OperationQueries :
          \A key \in FilterKeys :
            /\ StoredHas(k, key)
            /\ k[2].props[key] = lastCall.filters.props[key] }

(***************************************************************************)
(* C6: refetch(filters) and cancel(filters) target exactly the cache       *)
(* entries invalidate(filters) targets, for absent, empty and non-empty    *)
(* filters; the three differ only in the client method invoked.            *)
(***************************************************************************)
C6_SameTargets ==
  (uPc = "called" /\ lastCall.method \in {"invalidate", "refetch", "cancel"}) =>
    /\ lastCall.targets = InvalidateTargets(lastCall.before, lastCall.op, lastCall.filters)
    /\ lastCall.clientMethod =
         CASE lastCall.method = "invalidate" -> "invalidateQueries"
           [] lastCall.method = "refetch" -> "refetchQueries"
           [] lastCall.method = "cancel" -> "cancelQueries"
    /\ cache = lastCall.before

\* refetch({id: 1, name: 1}) on a cache holding GetUser under {id: 1} and
\* under {id: 1, name: 1}: only the second is targeted.
C6_Witness ==
  /\ uPc = "called"
  /\ lastCall.method = "refetch"
  /\ lastCall.filters = Obj(Props("1", "1"))
  /\ <<GetUser, Obj(Props("1", Absent))>> \in DOMAIN lastCall.before
  /\ lastCall.targets = { <<GetUser, Obj(Props("1", "1"))>> }

(***************************************************************************)
(* C7: write/read round trip.  For every operation of a group, every value *)
(* d and every variables v (absent included), getData(v) right after       *)
(* setData(d, v) on the same facade entry returns d.                       *)
(***************************************************************************)
C7_RoundTrip ==
  (uPc = "called" /\ lastCall.method = "setData") =>
    LET outcome == GetDataOutcome(cache, lastCall.op, lastCall.variables)
    IN  /\ ~lastCall.threw
        /\ ~outcome.threw
        /\ outcome.result = lastCall.data

(***************************************************************************)
(* C8: getData(variables) never fails, for every configuration (a group    *)
(* may list an operation queryKeys has no entry for) and every cache       *)
(* state: it returns the value held at the exact key [operationName] or    *)
(* [operationName, variables], or undefined when there is no such entry.   *)
(***************************************************************************)
C8_GetDataNeverFails ==
  (uPc = "called" /\ lastCall.method = "getData") =>
    LET key == IF lastCall.variables.tag = "undefined" THEN <<lastCall.op>>
               ELSE <<lastCall.op, lastCall.variables>>
    IN  /\ ~lastCall.threw
        /\ lastCall.result =
             IF key \in DOMAIN cache THEN cache[key].data ELSE Undefined

(***************************************************************************)
(* C9: for every operation name passed to createQueryKeys, the key without *)
(* variables is the one-element sequence [op] and the key for a defined v  *)
(* (null included) is the two-element sequence [op, v]; the first is       *)
(* strictly shorter than, and never equal to, the second.  getData and     *)
(* setData address the cache by exactly these keys.                        *)
(***************************************************************************)
C9_QueryKeys ==
  /\ \A op \in DOMAIN utilsConfig.queryKeys :
       LET key(v) == QueryKeyOf(utilsConfig.queryKeys[op], v)
       IN  /\ key(UndefinedArg) = <<op>>
           /\ \A v \in (VariablesArgs \cup {NullArg}) \ {UndefinedArg} :
                /\ key(v) = <<op, v>>
                /\ Len(key(UndefinedArg)) < Len(key(v))
                /\ key(UndefinedArg) # key(v)
  /\ (uPc = "called" /\ lastCall.method \in {"getData", "setData"} /\ ~lastCall.threw) =>
       lastCall.targets =
         { IF lastCall.variables.tag = "undefined" THEN <<lastCall.op>>
           ELSE <<lastCall.op, lastCall.variables>> }

\* setData("B", {id: 1}) while the cache holds GetUser with no variables: the
\* two keys are two cache slots.
C9_Witness ==
  /\ uPc = "called"
  /\ lastCall.method = "setData"
  /\ lastCall.variables = Obj(Props("1", Absent))
  /\ lastCall.targets = { <<GetUser, Obj(Props("1", Absent))>> }
  /\ {<<GetUser>>, <<GetUser, Obj(Props("1", Absent))>>} \subseteq DOMAIN cache
  /\ cache[<<GetUser>>].data = Some("A")
  /\ cache[<<GetUser, Obj(Props("1", Absent))>>].data = Some("B")

(***************************************************************************)
(* Naming inference of the cache-utils plugin (cli.js 110-136)             *)
(***************************************************************************)
Digits == {"0", "1", "2", "3", "4", "5", "6", "7", "8", "9"}

\* \w
WordChar(c) ==
  \/ \E i \in DOMAIN UpperCase : UpperCase[i] = c
  \/ \E i \in DOMAIN LowerCase : LowerCase[i] = c
  \/ c \in Digits
  \/ c = "_"

StrGet == <<"G", "e", "t">>

StrCreate == <<"C", "r", "e", "a", "t", "e">>

StrUpdate == <<"U", "p", "d", "a", "t", "e">>

StrDelete == <<"D", "e", "l", "e", "t", "e">>

StrService == <<"S", "e", "r", "v", "i", "c", "e">>

StrUser == <<"U", "s", "e", "r">>

StrProfile == <<"P", "r", "o", "f", "i", "l", "e">>

StrNotification == <<"N", "o", "t", "i", "f", "i", "c", "a", "t", "i", "o", "n">>

StrBooking == <<"B", "o", "o", "k", "i", "n", "g">>

StrRequest == <<"R", "e", "q", "u", "e", "s", "t">>

StrPolicy == <<"P", "o", "l", "i", "c", "y">>

StrSubscribeToFeed ==
  <<"S", "u", "b", "s", "c", "r", "i", "b", "e", "T", "o", "F", "e", "e", "d">>

StrFoo == <<"F", "o", "o">>

StrApps == <<"A", "p", "p", "s">>

Strget == <<"g", "e", "t">>

Strs == <<"s">>

StrGeneral == <<"g", "e", "n", "e", "r", "a", "l">>

\* The words operation names are made of, and names of up to MaxTokens words.
NameTokens ==
  {StrGet, StrCreate, StrUpdate, StrDelete, StrService, StrUser, StrProfile, StrNotification,
   StrBooking, StrRequest, StrPolicy, StrSubscribeToFeed, StrFoo, StrApps}

MaxTokens == 3

RECURSIVE Concat(_)
Concat(words) == IF Len(words) = 0 THEN <<>> ELSE words[1] \o Concat(Tail(words))

\* The names of the doc comments (lines 112, 140, 141).
DocumentedNames ==
  { StrGet \o StrNotification \o StrService \o StrApps,
    StrGet \o StrNotification \o StrService \o StrGet \o StrApps }

OperationNameInputs ==
  { Concat(w) : w \in UNION { [1..n -> NameTokens] : n \in 1..MaxTokens } }
    \cup DocumentedNames

StartsWith(str, prefix) ==
  /\ Len(str) >= Len(prefix)
  /\ SubSeq(str, 1, Len(prefix)) = prefix

\* str.match(/^<prefix>(\w+)Service/): the capture, or undefined.  \w+ is
\* greedy: it runs to the last "Service" it can still be followed by.
MatchWordService(str, prefix) ==
  LET first == Len(prefix) + 1
      ends == { p \in (first + 1)..(Len(str) - Len(StrService) + 1) :
                  /\ SubSeq(str, p, p + Len(StrService) - 1) = StrService
                  /\ \A i \in first..(p - 1) : WordChar(str[i]) }
  IN  IF StartsWith(str, prefix) /\ ends # {}
        THEN Some(SubSeq(str, first, (CHOOSE p \in ends : \A q \in ends : q <= p) - 1))
        ELSE Undefined

\* str.match(/^<prefix>(\w+)/): the capture, or undefined.
MatchWord(str, prefix) ==
  LET first == Len(prefix) + 1
      lasts == { p \in first..Len(str) : \A i \in first..p : WordChar(str[i]) }
  IN  IF StartsWith(str, prefix) /\ lasts # {}
        THEN Some(SubSeq(str, first, CHOOSE p \in lasts : \A q \in lasts : q <= p))
        ELSE Undefined

ServicePatterns_verbsFirst ==
  << [service |-> FALSE, prefix |-> StrGet],
     [service |-> FALSE, prefix |-> StrCreate],
     [service |-> FALSE, prefix |-> StrUpdate],
     [service |-> FALSE, prefix |-> StrDelete],
     [service |-> TRUE, prefix |-> StrGet],
     [service |-> TRUE, prefix |-> <<>>] >>

\* The patterns array (lines 117-124), in order.
ServicePatterns ==
  << [service |-> TRUE, prefix |-> StrGet],
     [service |-> TRUE, prefix |-> <<>>],
     [service |-> FALSE, prefix |-> StrGet],
     [service |-> FALSE, prefix |-> StrCreate],
     [service |-> FALSE, prefix |-> StrUpdate],
     [service |-> FALSE, prefix |-> StrDelete] >>

PatternMatch(pattern, str) ==
  IF pattern.service THEN MatchWordService(str, pattern.prefix)
  ELSE MatchWord(str, pattern.prefix)

\* transform: match[1].toLowerCase() + 's'
ServiceTransform(capture) == ToLowerCase(capture) \o Strs

RECURSIVE FirstPatternFrom(_, _)
\* The for loop over the patterns (lines 126-132) and the default (line 135).
FirstPatternFrom(i, str) ==
  IF i > Len(ServicePatterns) THEN StrGeneral
  ELSE LET match == PatternMatch(ServicePatterns[i], str)
       IN  IF match # Undefined
             THEN ServiceTransform(CHOOSE capture \in match : TRUE)
             ELSE FirstPatternFrom(i + 1, str)

ExtractServiceName(str) == FirstPatternFrom(1, str)

(***************************************************************************)
(* extractShortName (cli.js 143-161)                                       *)
(***************************************************************************)
\* operationName.includes(sub)
Includes(str, sub) ==
  \E p \in 1..(Len(str) - Len(sub) + 1) : SubSeq(str, p, p + Len(sub) - 1) = sub

StripPrefix_keep(str, prefix) == str

\* str.replace(/^<prefix>/, '')
StripPrefix(str, prefix) ==
  IF StartsWith(str, prefix) THEN SubSeq(str, Len(prefix) + 1, Len(str)) ELSE str

\* The alternation (Get|Create|Update|Delete), tried left to right.
Verbs == <<StrGet, StrCreate, StrUpdate, StrDelete>>

StripVerb_onlyGet(str, suffix) == StripPrefix(str, StrGet \o suffix)

\* str.replace(/^(Get|Create|Update|Delete)<suffix>/, '')
StripVerb(str, suffix) ==
  LET alts == { i \in DOMAIN Verbs : StartsWith(str, Verbs[i] \o suffix) }
  IN  IF alts = {} THEN str
      ELSE StripPrefix(str, Verbs[CHOOSE i \in alts : \A j \in alts : i <= j] \o suffix)

\* str.replace(/<sub>/, ''): without the g flag only the first occurrence goes.
RemoveFirst(str, sub) ==
  LET at == { p \in 1..(Len(str) - Len(sub) + 1) : SubSeq(str, p, p + Len(sub) - 1) = sub }
  IN  IF at = {} THEN str
      ELSE LET p == CHOOSE q \in at : \A r \in at : q <= r
           IN  SubSeq(str, 1, p - 1) \o SubSeq(str, p + Len(sub), Len(str))

ExtractShortName(operationName) ==
  LET shortened ==
        IF Includes(operationName, StrNotification \o StrService)
          THEN StripPrefix(StripVerb(operationName, StrNotification \o StrService), StrGet)
          ELSE StripPrefix(
                 StripPrefix(RemoveFirst(StripVerb(operationName, <<>>), StrService),
                             StrUser),
                 StrBooking)
  IN  Strget \o shortened

NamingInit ==
  /\ RunnerIdle
  /\ opName \in OperationNameInputs
  /\ inferred = <<>>
  /\ shortName = <<>>
  /\ nPc = "call"
  /\ cgPc = "idle"
  /\ options = [endpoints |-> <<>>, baseOutputDir |-> Undefined,
                reactQueryVersion |-> Undefined, appName |-> Undefined]
  /\ CodegenIdle
  /\ EnvIdle
  /\ UtilsIdle
  /\ PluginIdle
  /\ FetcherIdle

\* extractServiceName(operationName)
InferServiceName ==
  /\ nPc = "call"
  /\ inferred' = ExtractServiceName(opName)
  /\ nPc' = "done"
  /\ UNCHANGED <<opName, shortName, codegenVars, utilsVars, pluginVars, fetcherVars, runnerVars>>

\* The template's extractOpName helper (line 84-86): extractShortName(fullName)
\* for an operation the plugin has grouped.
InferShortName ==
  /\ nPc = "done"
  /\ shortName' = ExtractShortName(opName)
  /\ nPc' = "rendered"
  /\ UNCHANGED <<opName, inferred, codegenVars, utilsVars, pluginVars, fetcherVars, runnerVars>>

NamingNext == InferServiceName \/ InferShortName

SpecNaming == NamingInit /\ [][NamingNext]_vars

(***************************************************************************)
(* C10: inferServiceName("GetUserProfile") returns "users".                *)
(***************************************************************************)
C10_GetUserProfile ==
  (nPc = "done" /\ opName = StrGet \o StrUser \o StrProfile) =>
    inferred = <<"u", "s", "e", "r", "s">>

C12_ShortNames ==
  nPc = "rendered" =>
    /\ opName = StrGet \o StrNotification \o StrService \o StrApps =>
          shortName = <<"g", "e", "t", "A", "p", "p", "s">>
    /\ opName = StrGet \o StrUser \o StrProfile =>
          shortName = <<"g", "e", "t", "P", "r", "o", "f", "i", "l", "e">>
    /\ opName = StrDelete \o StrNotification \o StrService =>
          shortName = <<"g", "e", "t">>
    /\ opName = StrCreate \o StrBooking \o StrRequest =>
          shortName = <<"g", "e", "t", "R", "e", "q", "u", "e", "s", "t">>
    /\ opName = StrGet \o StrPolicy \o StrService =>
          shortName = <<"g", "e", "t", "P", "o", "l", "i", "c", "y">>
    /\ SubSeq(shortName, 1, 3) = <<"g", "e", "t">>

\* One of the claim's two names has been shortened.
C12_Witness ==
  /\ nPc = "rendered"
  /\ \/ /\ opName = StrGet \o StrNotification \o StrService \o StrApps
        /\ shortName = <<"g", "e", "t", "A", "p", "p", "s">>
     \/ /\ opName = StrGet \o StrUser \o StrProfile
        /\ shortName = <<"g", "e", "t", "P", "r", "o", "f", "i", "l", "e">>

(***************************************************************************)
(* C13 as stated: in the general path extractShortName("UpdateFoo") is     *)
(* "getUpdateFoo".                                                         *)
(***************************************************************************)
C13_UpdateFoo_stated ==
  (nPc = "rendered" /\ opName = StrUpdate \o StrFoo) =>
    shortName = <<"g", "e", "t", "U", "p", "d", "a", "t", "e", "F", "o", "o">>

(***************************************************************************)
(* C13: in the general path extractShortName("UpdateFoo") is "getFoo": the *)
(* leading Update is stripped like every other verb, and "get" is put in   *)
(* front of the mutation-derived name whatever the operation kind.         *)
(***************************************************************************)
C13_UpdateFoo ==
  (nPc = "rendered" /\ opName = StrUpdate \o StrFoo) =>
    shortName = <<"g", "e", "t", "F", "o", "o">>

\* UpdateFoo has been shortened.
C13_Witness ==
  /\ nPc = "rendered"
  /\ opName = StrUpdate \o StrFoo
  /\ ~Includes(opName, StrNotification \o StrService)
  /\ Len(shortName) = 6

(***************************************************************************)
(* The cache-utils plugin walking its documents (cli.js 37-62)             *)
(***************************************************************************)
MaxDocuments == 2

OperationDefinition(name) == [kind |-> "OperationDefinition", name |-> name]

FragmentDefinition(name) == [kind |-> "FragmentDefinition", name |-> Some(name)]

\* doc.document.definitions of the documents the generator hands over: named
\* and anonymous operations and fragments.
DocumentInputs ==
  { <<>>,
    <<OperationDefinition(Some(StrGet \o StrFoo))>>,
    <<OperationDefinition(Some(StrUpdate \o StrFoo)),
      OperationDefinition(Some(StrSubscribeToFeed))>>,
    <<OperationDefinition(Undefined), OperationDefinition(Some(StrGet \o StrFoo))>>,
    <<FragmentDefinition(StrFoo), OperationDefinition(Some(StrSubscribeToFeed))>>,
    <<OperationDefinition(Some(StrGet \o StrUser \o StrService)),
      OperationDefinition(Some(StrUpdate \o StrFoo))>> }

DocumentSeqs == UNION { [1..n -> DocumentInputs] : n \in 0..MaxDocuments }

\* obj[key]
Get(obj, key) == obj[CHOOSE i \in DOMAIN obj : obj[i][1] = key][2]

GroupPush_reset(grps, serviceName, operationName) ==
  Put(grps, serviceName, <<operationName>>)

\* Lines 53-56: create the group on first use, then push.
GroupPush(grps, serviceName, operationName) ==
  LET created == IF ~HasKey(grps, serviceName) THEN Put(grps, serviceName, <<>>) ELSE grps
  IN  Put(created, serviceName, Append(Get(created, serviceName), operationName))

PluginInit ==
  /\ RunnerIdle
  /\ documents \in DocumentSeqs
  /\ docIndex = 1
  /\ defIndex = 1
  /\ pluginOperations = <<>>
  /\ pluginGroups = <<>>
  /\ pPc = "forEach"
  /\ cgPc = "idle"
  /\ options = [endpoints |-> <<>>, baseOutputDir |-> Undefined,
                reactQueryVersion |-> Undefined, appName |-> Undefined]
  /\ CodegenIdle
  /\ EnvIdle
  /\ UtilsIdle
  /\ NamingIdle
  /\ FetcherIdle

\* visit() enters an OperationDefinition (lines 45-59).
EnterOperationDefinition ==
  /\ pPc = "forEach"
  /\ docIndex <= Len(documents)
  /\ defIndex <= Len(documents[docIndex])
  /\ LET node == documents[docIndex][defIndex]
     IN  /\ node.kind = "OperationDefinition"
         /\ IF node.name # Undefined
              THEN LET operationName == CHOOSE n \in node.name : TRUE
                       serviceName == ExtractServiceName(operationName)
                   IN  /\ pluginOperations' = Append(pluginOperations, operationName)
                       /\ pluginGroups' =
                            IF serviceName # <<>>
                              THEN GroupPush(pluginGroups, serviceName, operationName)
                              ELSE pluginGroups
              ELSE UNCHANGED <<pluginOperations, pluginGroups>>
  /\ defIndex' = defIndex + 1
  /\ UNCHANGED <<documents, docIndex, pPc, codegenVars, utilsVars, namingVars, fetcherVars, runnerVars>>

\* visit() passes a definition the visitor has no entry for.
PassDefinition ==
  /\ pPc = "forEach"
  /\ docIndex <= Len(documents)
  /\ defIndex <= Len(documents[docIndex])
  /\ documents[docIndex][defIndex].kind # "OperationDefinition"
  /\ defIndex' = defIndex + 1
  /\ UNCHANGED <<documents, docIndex, pluginOperations, pluginGroups, pPc,
                 codegenVars, utilsVars, namingVars, fetcherVars, runnerVars>>

\* documents.forEach moves to the next document (line 42).
NextDocument ==
  /\ pPc = "forEach"
  /\ docIndex <= Len(documents)
  /\ defIndex > Len(documents[docIndex])
  /\ docIndex' = docIndex + 1
  /\ defIndex' = 1
  /\ UNCHANGED <<documents, pluginOperations, pluginGroups, pPc,
                 codegenVars, utilsVars, namingVars, fetcherVars, runnerVars>>

\* Lines 64-106: the template is rendered from operations and groups.
RenderTemplate ==
  /\ pPc = "forEach"
  /\ docIndex > Len(documents)
  /\ pPc' = "rendered"
  /\ UNCHANGED <<documents, docIndex, defIndex, pluginOperations, pluginGroups,
                 codegenVars, utilsVars, namingVars, fetcherVars, runnerVars>>

PluginNext == EnterOperationDefinition \/ PassDefinition \/ NextDocument \/ RenderTemplate

SpecPlugin == PluginInit /\ [][PluginNext]_vars

RECURSIVE Flatten(_)
\* The definitions of all documents, in document order.
Flatten(docs) == IF Len(docs) = 0 THEN <<>> ELSE docs[1] \o Flatten(Tail(docs))

\* The names of the named operations of the documents, in discovery order.
DiscoveredNames ==
  LET IsNamed(node) == node.kind = "OperationDefinition" /\ node.name # Undefined
      named == SelectSeq(Flatten(documents), IsNamed)
  IN  [i \in DOMAIN named |-> CHOOSE n \in named[i].name : TRUE]

RECURSIVE SumLengths(_)
SumLengths(obj) == IF Len(obj) = 0 THEN 0 ELSE Len(obj[1][2]) + SumLengths(Tail(obj))

(***************************************************************************)
(* C14: after the plugin has walked its documents, `operations` holds      *)
(* every named operation in discovery order; each of them is in exactly    *)
(* one group, the one named extractServiceName(name) ("general" when no    *)
(* rule matches); a group keeps discovery order; anonymous operations      *)
(* (and fragments) are in no group; the group lengths add up to the        *)
(* length of `operations`.                                                 *)
(***************************************************************************)
C14_Grouping ==
  pPc = "rendered" =>
    /\ pluginOperations = DiscoveredNames
    /\ \A i, j \in DOMAIN pluginGroups :
          i # j => pluginGroups[i][1] # pluginGroups[j][1]
    /\ \A i \in DOMAIN pluginGroups :
          LET InGroup(name) == ExtractServiceName(name) = pluginGroups[i][1]
          IN  /\ pluginGroups[i][2] = SelectSeq(DiscoveredNames, InGroup)
              /\ pluginGroups[i][2] # <<>>
    /\ \A k \in DOMAIN DiscoveredNames :
          Cardinality({ i \in DOMAIN pluginGroups :
                          \E m \in DOMAIN pluginGroups[i][2] :
                            pluginGroups[i][2][m] = DiscoveredNames[k] }) = 1
    /\ StrSubscribeToFeed \in { DiscoveredNames[k] : k \in DOMAIN DiscoveredNames } =>
          \E i \in DOMAIN pluginGroups : pluginGroups[i][1] = StrGeneral
    /\ SumLengths(pluginGroups) = Len(pluginOperations)

\* Two documents walked: an anonymous operation left out, GetFoo and UpdateFoo
\* in one group in discovery order, SubscribeToFeed in "general".
C14_Witness ==
  /\ pPc = "rendered"
  /\ documents =
       << <<OperationDefinition(Undefined), OperationDefinition(Some(StrGet \o StrFoo))>>,
          <<OperationDefinition(Some(StrUpdate \o StrFoo)),
            OperationDefinition(Some(StrSubscribeToFeed))>> >>
  /\ pluginGroups =
       << << <<"f", "o", "o", "s">>, <<StrGet \o StrFoo, StrUpdate \o StrFoo>> >>,
          << StrGeneral, <<StrSubscribeToFeed>> >> >>

(***************************************************************************)
(* The fetcher embedded in the react-query target (codegen.ts 66-102)      *)
(*                                                                         *)
(* A header map is a function from HeaderKeys to optional strings.  The    *)
(* options argument is undefined or an object: `present` holds which of    *)
(* the keys customHeaders and endpoint it has, `rest` its other keys.      *)
(***************************************************************************)
HeaderKeys == {"Content-Type", "Authorization"}

NoHeaders == [k \in HeaderKeys |-> Undefined]

HeaderMaps ==
  { NoHeaders,
    [NoHeaders EXCEPT !["Authorization"] = Some("Bearer t")],
    [NoHeaders EXCEPT !["Content-Type"] = Some("text/plain")],
    [NoHeaders EXCEPT !["Authorization"] = Some("Bearer t"),
                      !["Content-Type"] = Some("text/plain")] }

EndpointOverrides == {Undefined, Some(""), Some("https://override")}

FetcherOptions ==
  {Undefined}
    \cup { Some([present |-> {}, customHeaders |-> Undefined, endpoint |-> Undefined,
                 rest |-> h]) : h \in HeaderMaps }
    \cup { Some([present |-> p, customHeaders |-> c, endpoint |-> e, rest |-> h]) :
             p \in {{"customHeaders"}, {"endpoint"}, {"customHeaders", "endpoint"}},
             c \in {Undefined} \cup { Some(m) : m \in HeaderMaps },
             e \in EndpointOverrides,
             h \in {NoHeaders, [NoHeaders EXCEPT !["Authorization"] = Some("Bearer t")]} }

FetcherArgs ==
  [query : {"query GetUser"}, variables : {Undefined, Some("{id: 1}")},
   options : { o \in FetcherOptions :
                 o # Undefined =>
                   LET w == CHOOSE x \in o : TRUE
                   IN  /\ "customHeaders" \notin w.present => w.customHeaders = Undefined
                       /\ "endpoint" \notin w.present => w.endpoint = Undefined }]

\* Values a promise settles with: a bare string, a JSON value, undefined,
\* or an error object.
Value(kind, text) == [kind |-> kind, text |-> text]

MaxErrors == 2

ErrorMessages == {"boom", "bang"}

\* json.errors: absent, null, or an array of up to MaxErrors error objects.
ErrorsFields ==
  {[tag |-> "absent", items |-> <<>>], [tag |-> "null", items |-> <<>>]}
    \cup { [tag |-> "array", items |-> e] :
             e \in UNION { [1..n -> [message : ErrorMessages]] : n \in 0..MaxErrors } }

\* json.data: absent, null, or a value.
DataFields == {Value("undefined", ""), Value("null", ""), Value("json", "{user: 1}")}

ResponseBodies == [errors : ErrorsFields, data : DataFields]

\* Line 73: 'customHeaders' in options || 'endpoint' in options
IsWrapper_customHeadersOnly(o) == "customHeaders" \in o.present

IsWrapper(o) == "customHeaders" \in o.present \/ "endpoint" \in o.present

\* Lines 69-79: the customHeaders the call ends up with.
CustomHeadersOf(opts) ==
  IF opts = Undefined THEN NoHeaders
  ELSE LET o == CHOOSE x \in opts : TRUE
       IN  IF IsWrapper(o) THEN OrDefault(o.customHeaders, NoHeaders) ELSE o.rest

EndpointOf_gateway(opts, gateway) == gateway

\* Lines 70-79: the endpoint the call ends up with; `||` falls back to the
\* gateway for an undefined and for an empty override.
EndpointOf(opts, gateway) ==
  IF opts = Undefined THEN gateway
  ELSE LET o == CHOOSE x \in opts : TRUE
       IN  IF IsWrapper(o) /\ o.endpoint # Undefined /\ o.endpoint # Some("")
             THEN CHOOSE e \in o.endpoint : TRUE
             ELSE gateway

\* Lines 81-84: { 'Content-Type': 'application/json', ...customHeaders }
HeadersOf(customHeaders) ==
  [k \in HeaderKeys |->
     IF customHeaders[k] # Undefined THEN customHeaders[k]
     ELSE IF k = "Content-Type" THEN Some("application/json") ELSE Undefined]

\* Line 94: `if (json.errors)`: an array is truthy, even an empty one.
ErrorsTruthy(errors) == errors.tag = "array"

ThrownValue_last(errors) ==
  IF Len(errors.items) = 0
    THEN Value("TypeError", "Cannot destructure property 'message' of undefined")
    ELSE Value("string", errors.items[Len(errors.items)].message)

\* Lines 95-96: const { message } = json.errors[0]; throw message.
\* Destructuring the undefined first element of an empty array is a TypeError.
ThrownValue(errors) ==
  IF Len(errors.items) = 0
    THEN Value("TypeError", "Cannot destructure property 'message' of undefined")
    ELSE Value("string", errors.items[1].message)

FetcherInit ==
  /\ RunnerIdle
  /\ fetcherEndpoint \in { c.gatewayEndpoint : c \in EndpointConfigs }
  /\ fetcherArgs \in FetcherArgs
  /\ request = Undefined
  /\ response = Undefined
  /\ settled = Pending
  /\ fPc = "called"
  /\ cgPc = "idle"
  /\ options = [endpoints |-> <<>>, baseOutputDir |-> Undefined,
                reactQueryVersion |-> Undefined, appName |-> Undefined]
  /\ CodegenIdle
  /\ EnvIdle
  /\ UtilsIdle
  /\ NamingIdle
  /\ PluginIdle

\* Lines 69-90: the returned operation builds the request and calls fetch.
SendRequest ==
  /\ fPc = "called"
  /\ request' = Some([url |-> EndpointOf(fetcherArgs.options, fetcherEndpoint),
                      method |-> "POST",
                      headers |-> HeadersOf(CustomHeadersOf(fetcherArgs.options)),
                      body |-> [query |-> fetcherArgs.query,
                                variables |-> fetcherArgs.variables]])
  /\ fPc' = "fetching"
  /\ UNCHANGED <<fetcherEndpoint, fetcherArgs, response, settled,
                 codegenVars, utilsVars, namingVars, pluginVars, runnerVars>>

\* Line 92: res.json() resolves with the body the server sent.
ReceiveBody(body) ==
  /\ fPc = "fetching"
  /\ response' = Some(body)
  /\ fPc' = "parsed"
  /\ UNCHANGED <<fetcherEndpoint, fetcherArgs, request, settled,
                 codegenVars, utilsVars, namingVars, pluginVars, runnerVars>>

\* Lines 86, 92: fetch or res.json() rejects; the rejection passes through.
FetchRejects ==
  /\ fPc = "fetching"
  /\ settled' = [status |-> "rejected", value |-> Some(Value("FetchError", "fetch failed"))]
  /\ fPc' = "settled"
  /\ UNCHANGED <<fetcherEndpoint, fetcherArgs, request, response,
                 codegenVars, utilsVars, namingVars, pluginVars, runnerVars>>

\* Lines 94-99: throw the first message, or return json.data.
Settle ==
  /\ fPc = "parsed"
  /\ LET json == CHOOSE b \in response : TRUE
     IN  settled' =
           IF ErrorsTruthy(json.errors)
             THEN [status |-> "rejected", value |-> Some(ThrownValue(json.errors))]
             ELSE [status |-> "resolved", value |-> Some(json.data)]
  /\ fPc' = "settled"
  /\ UNCHANGED <<fetcherEndpoint, fetcherArgs, request, response,
                 codegenVars, utilsVars, namingVars, pluginVars, runnerVars>>

FetcherNext ==
  \/ SendRequest
  \/ \E body \in ResponseBodies : ReceiveBody(body)
  \/ FetchRejects
  \/ Settle

SpecFetcher == FetcherInit /\ [][FetcherNext]_vars

\* The request handed to fetch, the parsed body, the options object.
TheRequest == CHOOSE r \in request : TRUE

TheBody == CHOOSE b \in response : TRUE

TheOptions == CHOOSE o \in fetcherArgs.options : TRUE

(***************************************************************************)
(* C15: when the options argument has neither a customHeaders nor an       *)
(* endpoint key, the whole argument is the header map; when it has either  *)
(* key, only options.customHeaders (or nothing) is the header map and its  *)
(* other keys are ignored.  The request headers are Content-Type:          *)
(* application/json overridden and extended by that map.                   *)
(***************************************************************************)
C15_HeaderDisambiguation ==
  request # Undefined =>
    LET map == IF fetcherArgs.options = Undefined THEN NoHeaders
               ELSE IF TheOptions.present = {} THEN TheOptions.rest
               ELSE IF TheOptions.customHeaders = Undefined THEN NoHeaders
               ELSE CHOOSE h \in TheOptions.customHeaders : TRUE
    IN  /\ TheRequest.headers["Content-Type"] =
             (IF map["Content-Type"] = Undefined THEN Some("application/json")
              ELSE map["Content-Type"])
        /\ TheRequest.headers["Authorization"] = map["Authorization"]

\* A flat header map that overrides Content-Type has been sent.
C15_Witness ==
  /\ request # Undefined
  /\ fetcherArgs.options # Undefined
  /\ TheOptions.present = {}
  /\ TheOptions.rest["Content-Type"] = Some("text/plain")
  /\ TheRequest.headers["Content-Type"] = Some("text/plain")
  /\ TheRequest.headers["Authorization"] = Some("Bearer t")

(***************************************************************************)
(* C16: for a response body with a non-empty errors array the returned     *)
(* operation fails, and the failure value is the first error's message as  *)
(* a bare value; data is not returned.                                     *)
(***************************************************************************)
C16_FirstErrorMessage ==
  (fPc = "settled" /\ response # Undefined
     /\ TheBody.errors.tag = "array" /\ Len(TheBody.errors.items) > 0) =>
    /\ settled.status = "rejected"
    /\ settled.value = Some([kind |-> "string", text |-> TheBody.errors.items[1].message])

\* A body with two different errors has failed the operation with the first.
C16_Witness ==
  /\ fPc = "settled"
  /\ response # Undefined
  /\ TheBody.errors.tag = "array"
  /\ Len(TheBody.errors.items) = 2
  /\ TheBody.errors.items[1].message = "boom"
  /\ TheBody.errors.items[2].message = "bang"
  /\ settled = [status |-> "rejected", value |-> Some([kind |-> "string", text |-> "boom"])]

(***************************************************************************)
(* C17: for a response body whose errors field is absent, null or an empty *)
(* array the returned operation succeeds and resolves with the body's      *)
(* data field.                                                             *)
(***************************************************************************)
C17_NoErrorsResolves ==
  (fPc = "settled" /\ response # Undefined
     /\ (TheBody.errors.tag = "array" => Len(TheBody.errors.items) = 0)) =>
    settled = [status |-> "resolved", value |-> Some(TheBody.data)]

(***************************************************************************)
(* C18: the request goes to options.endpoint when the wrapper form         *)
(* supplies an override (a non-empty endpoint), and otherwise - no         *)
(* options, a flat header map, a wrapper without an endpoint - to the      *)
(* configured gatewayEndpoint; it is always a POST with the body           *)
(* {query, variables}.                                                     *)
(***************************************************************************)
C18_RequestTarget ==
  request # Undefined =>
    LET overridden == /\ fetcherArgs.options # Undefined
                      /\ "endpoint" \in TheOptions.present
                      /\ TheOptions.endpoint \notin {Undefined, Some("")}
    IN  /\ TheRequest.method = "POST"
        /\ TheRequest.body = [query |-> fetcherArgs.query,
                              variables |-> fetcherArgs.variables]
        /\ overridden => Some(TheRequest.url) = TheOptions.endpoint
        /\ ~overridden => TheRequest.url = fetcherEndpoint
        /\ fetcherEndpoint \in {"https://gw/one", "https://gw/two"}

\* A wrapper with only an endpoint has redirected the request.
C18_Witness ==
  /\ request # Undefined
  /\ fetcherArgs.options # Undefined
  /\ TheOptions.present = {"endpoint"}
  /\ TheRequest.url = "https://override"
  /\ fetcherEndpoint = "https://gw/two"

(***************************************************************************)
(* C19: createCodegenConfig has no side effect beyond returning the plan:  *)
(* it performs no filesystem or network I/O and leaves the process         *)
(* environment as it found it.                                             *)
(***************************************************************************)
C19_NoSideEffect ==
  cgPc # "idle" =>
    /\ ioLog = <<>>
    /\ processEnv = InitialProcessEnv

C21_UtilsShape ==
  uPc \in {"ready", "called"} =>
    /\ DOMAIN utils = { utilsConfig.groups[i][1] : i \in DOMAIN utilsConfig.groups }
    /\ \A i \in DOMAIN utilsConfig.groups :
         LET g == utilsConfig.groups[i][1]
             names == utilsConfig.groups[i][2]
             camel(op) == <<ToLowerChar(op[1])>> \o Tail(op)
         IN  /\ DOMAIN utils[g] = { camel(names[j]) : j \in DOMAIN names }
             /\ \A j \in DOMAIN names : utils[g][camel(names[j])] = names[j]
             /\ names = <<>> => DOMAIN utils[g] = {}

(***************************************************************************)
(* C28: for a group whose operation names are pairwise distinct, the Utils *)
(* object has as many entries in the group as the group has operation      *)
(* names, and the entry under camel(op) acts on op's cache keys.           *)
(***************************************************************************)
C28_EveryOperationReachable ==
  uPc \in {"ready", "called"} =>
    \A i \in DOMAIN utilsConfig.groups :
      LET g == utilsConfig.groups[i][1]
          names == utilsConfig.groups[i][2]
          camel(op) == <<ToLowerChar(op[1])>> \o Tail(op)
      IN  (\A j, k \in DOMAIN names : j # k => names[j] # names[k]) =>
            /\ Cardinality(DOMAIN utils[g]) = Len(names)
            /\ \A j \in DOMAIN names : utils[g][camel(names[j])] = names[j]

(***************************************************************************)
(* Failures of the cache client (utils.ts 35-106).  The five closures call *)
(* the client without a try/catch: a rejection of the awaited promise, or  *)
(* an exception of getQueryData / setQueryData, leaves the closure as it   *)
(* came.                                                                   *)
(***************************************************************************)
\* Failure values of the client: any JavaScript value may be thrown.
ClientFailures == {Value("Error", "network down"), Value("string", "cancelled")}

\* The client method each facade operation calls.
ClientMethodOf ==
  [invalidate |-> "invalidateQueries", refetch |-> "refetchQueries",
   cancel |-> "cancelQueries", getData |-> "getQueryData", setData |-> "setQueryData"]

FacadeMethods == DOMAIN ClientMethodOf

AsyncMethods == {"invalidate", "refetch", "cancel"}

\* The arguments a facade operation is called with in the failure runs.
FacadeArgs(method) == IF method \in AsyncMethods THEN FiltersArgs ELSE VariablesArgs

Rethrow_wrapped(failure) == Value("Error", "cache operation failed")

\* `await client.m(...)` and `return client.m(...)` outside any try block: the
\* failure of the client call is the failure of the closure.
Rethrow(failure) == failure

\* utils[g][c][method](arg) when the client call it makes fails.  getData and
\* setData reach the client only when queryKeys has the operation.
ClientCallFails(method, g, c, arg, failure) ==
  /\ uPc = "ready"
  /\ method \in AsyncMethods \/ utils[g][c] \in DOMAIN utilsConfig.queryKeys
  /\ lastCall' = [Call(method, ClientMethodOf[method], g, c)
                    EXCEPT !.filters = IF method \in AsyncMethods THEN arg ELSE UndefinedArg,
                           !.variables = IF method \in AsyncMethods THEN UndefinedArg ELSE arg,
                           !.threw = TRUE,
                           !.clientFailure = Some(failure),
                           !.failure = Some(Rethrow(failure))]
  /\ uPc' = "failed"
  /\ UNCHANGED <<invocations, otherVars, utilsConfig, utils, cache, codegenVars, namingVars, pluginVars, fetcherVars, runnerVars>>

\* The caller handles the failure and goes on.
CallerCatches ==
  /\ uPc = "failed"
  /\ uPc' = "ready"
  /\ lastCall' = NoCall
  /\ UNCHANGED <<invocations, otherVars, utilsConfig, utils, cache, codegenVars, namingVars, pluginVars, fetcherVars, runnerVars>>

FailuresNext ==
  \/ CreateUtilsObject
  \/ \E e \in FacadeEntries : \E method \in FacadeMethods :
       \E arg \in FacadeArgs(method) : \E failure \in ClientFailures :
         ClientCallFails(method, e[1], e[2], arg, failure)
  \/ CallerCatches

SpecFailures == UtilsInit /\ [][FailuresNext]_vars

(***************************************************************************)
(* C23: whenever the cache-client call made by invalidate, refetch,        *)
(* cancel, getData or setData fails, the facade operation fails with that  *)
(* same failure value; the facade does not catch, mask, wrap or retry.     *)
(***************************************************************************)
C23_PassThrough ==
  uPc = "failed" =>
    /\ lastCall.threw
    /\ lastCall.clientFailure # Undefined
    /\ lastCall.failure = lastCall.clientFailure
    /\ lastCall.clientMethod = ClientMethodOf[lastCall.method]
    /\ cache = lastCall.before

\* A refetch whose refetchQueries call was rejected with a bare string.
C23_Witness ==
  /\ uPc = "failed"
  /\ lastCall.method = "refetch"
  /\ lastCall.clientFailure = Some([kind |-> "string", text |-> "cancelled"])
  /\ lastCall.failure = Some([kind |-> "string", text |-> "cancelled"])

(***************************************************************************)
(* invalidate, refetch and cancel as asynchronous operations (utils.ts     *)
(* 39-53, 58-72, 91-105).  An invocation runs to its `await`, where it has *)
(* issued its client call; the promise it returned settles when the        *)
(* awaited client promise has settled and the continuation has run.        *)
(***************************************************************************)
MaxInvocations == 2

\* Filters for the two branches of `if (filters && Object.keys(filters).length > 0)`.
AsyncFiltersArgs == {UndefinedArg, Obj(Props("1", Absent))}

\* How the client promise settles.
ClientOutcomes ==
  {[status |-> "fulfilled", value |-> Undefined]}
    \cup { [status |-> "rejected", value |-> Some(failure)] : failure \in ClientFailures }

IssuedCalls_twice(method, operationName, filters) ==
  << [clientMethod |-> ClientMethodOf[method], queryKey |-> <<operationName>>,
      predicate |-> HasFilters(filters)],
     [clientMethod |-> ClientMethodOf[method], queryKey |-> <<operationName>>,
      predicate |-> FALSE] >>

\* The client calls one invocation issues: one, in either branch.
IssuedCalls(method, operationName, filters) ==
  << [clientMethod |-> ClientMethodOf[method], queryKey |-> <<operationName>>,
      predicate |-> HasFilters(filters)] >>

Awaited_eager(invocation) == TRUE

\* `await`: the continuation runs once the client promise has settled.
Awaited(invocation) == invocation.client # Pending

\* utils[g][c][method](filters) up to its await.
InvokeAsync(method, g, c, filters) ==
  /\ uPc = "ready"
  /\ Len(invocations) < MaxInvocations
  /\ invocations' =
       Append(invocations,
              [method |-> method, op |-> utils[g][c], filters |-> filters,
               calls |-> IssuedCalls(method, utils[g][c], filters),
               client |-> Pending, promise |-> Pending])
  /\ UNCHANGED <<otherVars, utilsConfig, utils, cache, lastCall, uPc,
                 codegenVars, namingVars, pluginVars, fetcherVars, runnerVars>>

\* The client call of invocation i completes.
ClientSettles(i, clientOutcome) ==
  /\ invocations[i].client = Pending
  /\ invocations' = [invocations EXCEPT ![i].client = clientOutcome]
  /\ UNCHANGED <<otherVars, utilsConfig, utils, cache, lastCall, uPc,
                 codegenVars, namingVars, pluginVars, fetcherVars, runnerVars>>

\* The continuation after the await: the closure returns, or the rejection
\* leaves it.
Continuation(i) ==
  /\ invocations[i].promise = Pending
  /\ Awaited(invocations[i])
  /\ invocations' =
       [invocations EXCEPT ![i].promise =
          IF invocations[i].client.status = "rejected"
            THEN [status |-> "rejected",
                  value |-> Some(Rethrow(CHOOSE f \in invocations[i].client.value : TRUE))]
            ELSE [status |-> "fulfilled", value |-> Undefined]]
  /\ UNCHANGED <<otherVars, utilsConfig, utils, cache, lastCall, uPc,
                 codegenVars, namingVars, pluginVars, fetcherVars, runnerVars>>

AsyncNext ==
  \/ CreateUtilsObject
  \/ \E e \in FacadeEntries : \E method \in AsyncMethods : \E filters \in AsyncFiltersArgs :
       InvokeAsync(method, e[1], e[2], filters)
  \/ \E i \in DOMAIN invocations : \E clientOutcome \in ClientOutcomes :
       ClientSettles(i, clientOutcome)
  \/ \E i \in DOMAIN invocations : Continuation(i)

SpecAsync == UtilsInit /\ [][AsyncNext]_vars

(***************************************************************************)
(* C24: each invocation of invalidate, refetch or cancel issues exactly    *)
(* one call into the cache client, the matching method on the key          *)
(* [operationName]; the promise it returned settles only after that call   *)
(* has completed, and with its outcome; invocations in flight do not       *)
(* affect each other and leave the cache alone.                            *)
(***************************************************************************)
C24_OneCallThenSettle ==
  /\ \A i \in DOMAIN invocations :
       /\ Len(invocations[i].calls) = 1
       /\ invocations[i].calls[1].clientMethod =
            (CASE invocations[i].method = "invalidate" -> "invalidateQueries"
               [] invocations[i].method = "refetch" -> "refetchQueries"
               [] invocations[i].method = "cancel" -> "cancelQueries")
       /\ invocations[i].calls[1].queryKey = <<invocations[i].op>>
       /\ invocations[i].promise.status # "pending" =>
            /\ invocations[i].client.status # "pending"
            /\ invocations[i].promise.status = invocations[i].client.status
  /\ cache = <<>>

\* Two invocations for different operations in flight: the later one has
\* settled while the earlier one still waits for its client call.
C24_Witness ==
  /\ Len(invocations) = 2
  /\ invocations[1].op # invocations[2].op
  /\ invocations[1].method = "invalidate"
  /\ invocations[2].method = "cancel"
  /\ invocations[1].client.status = "pending"
  /\ invocations[1].promise.status = "pending"
  /\ invocations[2].client.status = "fulfilled"
  /\ invocations[2].promise.status = "fulfilled"

(***************************************************************************)
(* C25: invalidate, refetch and cancel on the facade entry of operation A, *)
(* with or without filters, never target a cache entry whose key's first   *)
(* segment is another operation name B, even when that entry's variables   *)
(* satisfy the filters.                                                    *)
(***************************************************************************)
C25_CrossOperationFrame ==
  (uPc = "called" /\ lastCall.method \in {"invalidate", "refetch", "cancel"}) =>
    /\ \A k \in lastCall.targets : k[1] = lastCall.op
    /\ \A k \in DOMAIN lastCall.before :
         k[1] # lastCall.op => (k \notin lastCall.targets /\ cache[k] = lastCall.before[k])

\* cancel({id: 1}) on getUser while GetUser and GetPost are both cached under
\* {id: 1}: only the GetUser entry is targeted.
C25_Witness ==
  /\ uPc = "called"
  /\ lastCall.method = "cancel"
  /\ lastCall.op = GetUser
  /\ lastCall.filters = Obj(Props("1", Absent))
  /\ DOMAIN lastCall.before =
       { <<GetUser, Obj(Props("1", Absent))>>, <<GetPost, Obj(Props("1", Absent))>> }
  /\ lastCall.targets = { <<GetUser, Obj(Props("1", Absent))>> }

(***************************************************************************)
(* C26: setData(dataOrUpdater, variables?) writes only the exact key [op]  *)
(* or [op, variables]: every other cache entry, the same operation's       *)
(* entries under other variables and its no-variables entry included, is   *)
(* left as it was.  The value form stores the data, the updater form       *)
(* stores updater(previous value at that key, possibly undefined).         *)
(* getData changes no cache entry.                                         *)
(***************************************************************************)
C26_SetDataFrame ==
  /\ (uPc = "called" /\ lastCall.method \in {"setData", "setData/updater"}) =>
       LET key == IF lastCall.variables.tag = "undefined" THEN <<lastCall.op>>
                  ELSE <<lastCall.op, lastCall.variables>>
           previous == IF key \in DOMAIN lastCall.before THEN lastCall.before[key].data
                       ELSE {}
       IN  /\ \A k \in DOMAIN lastCall.before :
                k # key => (k \in DOMAIN cache /\ cache[k] = lastCall.before[k])
           /\ DOMAIN cache \subseteq DOMAIN lastCall.before \cup {key}
           /\ ~lastCall.threw =>
                /\ key \in DOMAIN cache
                /\ lastCall.method = "setData" => cache[key].data = lastCall.data
                /\ lastCall.method = "setData/updater" =>
                     cache[key].data = (IF previous = {"A"} THEN {"B"} ELSE {"A"})
  /\ (uPc = "called" /\ lastCall.method = "getData") => cache = lastCall.before

\* setData(swap, {id: 1}) on getUser while GetUser is cached with no
\* variables ("A") and under {id: 1} ("A"): only the second becomes "B".
C26_Witness ==
  /\ uPc = "called"
  /\ lastCall.method = "setData/updater"
  /\ lastCall.op = GetUser
  /\ lastCall.variables = Obj(Props("1", Absent))
  /\ DOMAIN cache = { <<GetUser>>, <<GetUser, Obj(Props("1", Absent))>> }
  /\ DOMAIN lastCall.before = DOMAIN cache
  /\ lastCall.before[<<GetUser>>].data = {"A"}
  /\ lastCall.before[<<GetUser, Obj(Props("1", Absent))>>].data = {"A"}
  /\ cache[<<GetUser>>].data = {"A"}
  /\ cache[<<GetUser, Obj(Props("1", Absent))>>].data = {"B"}

(***************************************************************************)
(* Two Utils objects: createUtils(queryClient) is called twice, by one     *)
(* factory or by two, with one cache-client handle or with two (lines      *)
(* 22-26, 111).  Each call builds a fresh utils object whose closures hold *)
(* the queryClient and the config they were built with.                    *)
(***************************************************************************)
\* The configurations of the factories: those that list GetPost.
FactoryConfigs ==
  { config \in UtilsConfigs :
      \E i \in DOMAIN config.groups :
        \E j \in DOMAIN config.groups[i][2] : config.groups[i][2][j] = GetPost }

\* The variables and filters the callers pass.
ClientArgs == { UndefinedArg, Obj(Props("1", Absent)) }

OtherQueries_module == cache

\* The cache behind the queryClient the second object was built around
\* (the parameter of createUtils, line 25).
OtherQueries == IF otherClient = "same" THEN cache ELSE otherCache

\* The facade entries of the second object.
OtherFacadeEntries ==
  UNION { { <<g, c>> : c \in DOMAIN otherUtils[g] } : g \in DOMAIN otherUtils }

OtherCall(method, clientMethod, g, c) ==
  [NoCall EXCEPT !.method = method, !.clientMethod = clientMethod,
                 !.group = g, !.entry = c, !.op = otherUtils[g][c],
                 !.filters = UndefinedArg, !.variables = UndefinedArg,
                 !.before = OtherQueries, !.via = "other"]

\* getData of the second object (lines 77-80), with the config of its factory.
OtherGetDataOutcome(queries, operationName, variables) ==
  IF operationName \in DOMAIN otherConfig.queryKeys
    THEN LET key == QueryKeyOf(otherConfig.queryKeys[operationName], variables)
         IN  [threw |-> FALSE, key |-> {key}, result |-> GetQueryData(queries, key)]
    ELSE [threw |-> TRUE, key |-> {}, result |-> Undefined]

ClientsInit ==
  /\ UtilsInit
  /\ utilsConfig \in FactoryConfigs

\* createUtilsFactory(config)(queryClient) for the second object: the same
\* factory or another one, the same handle or another one.
CreateOtherUtils(config, client) ==
  /\ uPc = "ready"
  /\ otherClient = "none"
  /\ otherConfig' = config
  /\ otherUtils' = CreateUtils(config.groups)
  /\ otherClient' = client
  /\ UNCHANGED <<otherCache, invocations, utilsConfig, utils, cache, lastCall, uPc,
                 codegenVars, namingVars, pluginVars, fetcherVars, runnerVars>>

\* otherUtils[g][c].setData(data, variables)
OtherSetData(g, c, data, variables) ==
  /\ uPc = "ready"
  /\ otherClient # "none"
  /\ LET operationName == otherUtils[g][c]
     IN  IF operationName \in DOMAIN otherConfig.queryKeys
           THEN LET key == QueryKeyOf(otherConfig.queryKeys[operationName], variables)
                IN  /\ key \in DOMAIN OtherQueries
                         \/ Cardinality(DOMAIN OtherQueries) < MaxEntries
                    /\ IF otherClient = "same"
                         THEN /\ cache' = SetQueryData(cache, key, data)
                              /\ otherCache' = otherCache
                         ELSE /\ otherCache' = SetQueryData(otherCache, key, data)
                              /\ cache' = cache
                    /\ lastCall' = [OtherCall("setData", "setQueryData", g, c)
                                      EXCEPT !.variables = variables, !.data = data,
                                             !.targets = {key}]
           ELSE /\ UNCHANGED <<cache, otherCache>>
                /\ lastCall' = [OtherCall("setData", "none", g, c)
                                  EXCEPT !.variables = variables, !.data = data,
                                         !.threw = TRUE]
  /\ uPc' = "called"
  /\ UNCHANGED <<otherUtils, otherConfig, otherClient, invocations, utilsConfig, utils,
                 codegenVars, namingVars, pluginVars, fetcherVars, runnerVars>>

\* otherUtils[g][c].getData(variables), also right after a call through the
\* first object.
OtherGetData(g, c, variables) ==
  /\ uPc = "ready" \/ (uPc = "called" /\ lastCall.via = "utils")
  /\ otherClient # "none"
  /\ LET outcome == OtherGetDataOutcome(OtherQueries, otherUtils[g][c], variables)
     IN  lastCall' = [OtherCall("getData", IF outcome.threw THEN "none" ELSE "getQueryData", g, c)
                        EXCEPT !.variables = variables,
                               !.targets = outcome.key,
                               !.result = outcome.result,
                               !.threw = outcome.threw,
                               !.after = IF uPc = "called"
                                           THEN <<lastCall.method, lastCall.entry,
                                                  lastCall.variables>>
                                           ELSE <<>>]
  /\ uPc' = "called"
  /\ UNCHANGED <<otherVars, invocations, utilsConfig, utils, cache,
                 codegenVars, namingVars, pluginVars, fetcherVars, runnerVars>>

\* otherUtils[g][c].invalidate(filters)
OtherInvalidate(g, c, filters) ==
  /\ uPc = "ready"
  /\ otherClient # "none"
  /\ LET targets == InvalidateTargets(OtherQueries, otherUtils[g][c], filters)
     IN  lastCall' = [OtherCall("invalidate", "invalidateQueries", g, c)
                        EXCEPT !.filters = filters, !.targets = targets]
  /\ uPc' = "called"
  /\ UNCHANGED <<otherVars, invocations, utilsConfig, utils, cache,
                 codegenVars, namingVars, pluginVars, fetcherVars, runnerVars>>

ClientsNext ==
  \/ CreateUtilsObject
  \/ \E config \in FactoryConfigs : \E client \in {"same", "other"} :
       CreateOtherUtils(config, client)
  \/ \E e \in FacadeEntries : \E data \in DataArgs : \E variables \in ClientArgs :
       SetData(e[1], e[2], data, variables)
  \/ \E e \in FacadeEntries : \E variables \in ClientArgs : GetData(e[1], e[2], variables)
  \/ \E e \in FacadeEntries : \E filters \in ClientArgs : Invalidate(e[1], e[2], filters)
  \/ \E e \in OtherFacadeEntries : \E data \in DataArgs : \E variables \in ClientArgs :
       OtherSetData(e[1], e[2], data, variables)
  \/ \E e \in OtherFacadeEntries : \E variables \in ClientArgs :
       OtherGetData(e[1], e[2], variables)
  \/ \E e \in OtherFacadeEntries : \E filters \in ClientArgs :
       OtherInvalidate(e[1], e[2], filters)
  \/ Resume

SpecClients == ClientsInit /\ [][ClientsNext]_vars

\* What getData returns on each entry of an object, for every variables.
ReadOther(queries) ==
  [e \in OtherFacadeEntries \X ClientArgs |->
     OtherGetDataOutcome(queries, otherUtils[e[1][1]][e[1][2]], e[2])]

ReadUtils(queries) ==
  [e \in FacadeEntries \X ClientArgs |->
     GetDataOutcome(queries, utils[e[1][1]][e[1][2]], e[2])]

CallThrough(object) ==
  /\ lastCall' # lastCall
  /\ uPc' = "called"
  /\ lastCall'.via = object

(***************************************************************************)
(* C22: two Utils objects built, by the same factory or by different       *)
(* ones, around different cache-client handles share no state: no          *)
(* operation on one changes what getData returns on the other.  Two Utils  *)
(* objects built around the same handle operate on the same cache: a       *)
(* setData through one is what getData returns through the other, and an   *)
(* invalidate through one targets the entries of that one cache.           *)
(***************************************************************************)
C22_Step ==
  /\ (otherClient = "other" /\ CallThrough("utils")) =>
       /\ otherCache' = otherCache
       /\ ReadOther(OtherQueries') = ReadOther(OtherQueries)
  /\ (otherClient = "other" /\ CallThrough("other")) =>
       /\ cache' = cache
       /\ ReadUtils(cache') = ReadUtils(cache)
       /\ lastCall'.method = "invalidate" =>
            /\ lastCall'.targets \subseteq DOMAIN otherCache'
            /\ lastCall'.filters.tag = "undefined" =>
                 lastCall'.targets = { k \in DOMAIN otherCache' : k[1] = lastCall'.op }
  /\ (otherClient = "same" /\ CallThrough("utils")
        /\ lastCall'.method = "setData" /\ ~lastCall'.threw) =>
       \A e \in OtherFacadeEntries \X ClientArgs :
         LET read == OtherGetDataOutcome(OtherQueries', otherUtils[e[1][1]][e[1][2]], e[2])
         IN  read.key = lastCall'.targets => read.result = lastCall'.data
  /\ (otherClient = "same" /\ CallThrough("other")
        /\ lastCall'.method = "setData" /\ ~lastCall'.threw) =>
       \A e \in FacadeEntries \X ClientArgs :
         LET read == GetDataOutcome(cache', utils[e[1][1]][e[1][2]], e[2])
         IN  read.key = lastCall'.targets => read.result = lastCall'.data
  /\ (otherClient = "same" /\ (CallThrough("utils") \/ CallThrough("other"))
        /\ lastCall'.method = "invalidate") =>
       /\ lastCall'.targets \subseteq DOMAIN cache'
       /\ lastCall'.filters.tag = "undefined" =>
            lastCall'.targets = { k \in DOMAIN cache' : k[1] = lastCall'.op }

C22_Clients == [][C22_Step]_vars

\* Different handles: right after setData("A") on getUser of the first
\* object, getData on getUser of the second returns the "B" its own client
\* holds.
C22_Witness ==
  /\ uPc = "called"
  /\ otherClient = "other"
  /\ lastCall.via = "other"
  /\ lastCall.method = "getData"
  /\ lastCall.op = GetUser
  /\ lastCall.variables = UndefinedArg
  /\ lastCall.after = <<"setData", LowerGetUser, UndefinedArg>>
  /\ <<GetUser>> \in DOMAIN cache
  /\ cache[<<GetUser>>].data = {"A"}
  /\ lastCall.result = {"B"}

(***************************************************************************)
(* C27: for every endpoint name n, each of the four targets under          *)
(* {base}/{n} carries n's own schema, headers ({} when headers are absent) *)
(* and documentsPath and no other endpoint's; the fetcher text of the      *)
(* react-query target embeds n's gatewayEndpoint and no other endpoint's;  *)
(* the cache-utils target has config.serviceName = n.                      *)
(***************************************************************************)
C27_EndpointIsolation ==
  cgPc = "done" =>
    \A i \in DOMAIN options.endpoints :
      LET n == options.endpoints[i][1]
          own == options.endpoints[i][2]
          dir == locals.baseOutputDir \o "/" \o n
          text(gw) == "function fetcher(query, variables, options) { let endpoint = \""
                        \o gw \o "\"; ... endpoint = options.endpoint || \""
                        \o gw \o "\"; ... }"
          targets == << Get(PlanGenerates, dir \o "/"),
                        Get(PlanGenerates, dir \o "/plugins/graphql-request.ts"),
                        Get(PlanGenerates, dir \o "/plugins/react-query.ts"),
                        Get(PlanGenerates, dir \o "/cache-utils.ts") >>
      IN  /\ \A t \in 1..4 :
               /\ targets[t].schema.url = own.schema
               /\ targets[t].schema.headers =
                    (IF own.headers = {} THEN "{}" ELSE CHOOSE h \in own.headers : TRUE)
               /\ targets[t].documents = <<own.documentsPath>>
          /\ targets[3].config.fetcher = text(own.gatewayEndpoint)
          /\ targets[4].config.serviceName = n
          /\ \A j \in DOMAIN options.endpoints :
               LET other == options.endpoints[j][2]
               IN  /\ other.gatewayEndpoint # own.gatewayEndpoint =>
                        targets[3].config.fetcher # text(other.gatewayEndpoint)
                   /\ j # i => targets[4].config.serviceName # options.endpoints[j][1]

\* A returned plan for the endpoints "a" and "b" with different configs, the
\* first without headers.
C27_Witness ==
  /\ cgPc = "done"
  /\ Len(options.endpoints) = 2
  /\ options.endpoints[1][1] = "a"
  /\ options.endpoints[2][1] = "b"
  /\ options.endpoints[1][2].headers = {}
  /\ options.endpoints[2][2].headers # {}
  /\ Get(PlanGenerates, locals.baseOutputDir \o "/b/plugins/react-query.ts").config.fetcher
       # Get(PlanGenerates, locals.baseOutputDir \o "/a/plugins/react-query.ts").config.fetcher

(***************************************************************************)
(* The README-generator plugin's copies of the naming inference            *)
(* (cli.js 298-339).                                                       *)
(***************************************************************************)
\* The patterns array of the copy (lines 299-306), in order.
ReadmeServicePatterns ==
  << [service |-> TRUE, prefix |-> StrGet],
     [service |-> TRUE, prefix |-> <<>>],
     [service |-> FALSE, prefix |-> StrGet],
     [service |-> FALSE, prefix |-> StrCreate],
     [service |-> FALSE, prefix |-> StrUpdate],
     [service |-> FALSE, prefix |-> StrDelete] >>

\* Lines 312-315: three named services are returned by their own name, any
\* other service name is returned as it is.
ReadmeServiceName(serviceName) ==
  IF serviceName = <<"n", "o", "t", "i", "f", "i", "c", "a", "t", "i", "o", "n", "s">>
    THEN <<"n", "o", "t", "i", "f", "i", "c", "a", "t", "i", "o", "n", "s">>
  ELSE IF serviceName = <<"u", "s", "e", "r", "s">>
    THEN <<"u", "s", "e", "r", "s">>
  ELSE IF serviceName = <<"b", "o", "o", "k", "i", "n", "g", "s">>
    THEN <<"b", "o", "o", "k", "i", "n", "g", "s">>
  ELSE serviceName

RECURSIVE ReadmeFirstPatternFrom(_, _)
\* The for loop of the copy (lines 308-317) and the default (line 319).
ReadmeFirstPatternFrom(i, str) ==
  IF i > Len(ReadmeServicePatterns) THEN StrGeneral
  ELSE LET match == PatternMatch(ReadmeServicePatterns[i], str)
       IN  IF match # Undefined
             THEN ReadmeServiceName(ServiceTransform(CHOOSE capture \in match : TRUE))
             ELSE ReadmeFirstPatternFrom(i + 1, str)

ReadmeExtractServiceName(str) == ReadmeFirstPatternFrom(1, str)

ReadmeExtractShortName_noBooking(operationName) ==
  LET shortened ==
        IF Includes(operationName, StrNotification \o StrService)
          THEN StripPrefix(StripVerb(operationName, StrNotification \o StrService), StrGet)
          ELSE StripPrefix(RemoveFirst(StripVerb(operationName, <<>>), StrService),
                           StrUser)
  IN  Strget \o shortened

\* extractShortName of the copy (lines 325-339).
ReadmeExtractShortName(operationName) ==
  LET shortened ==
        IF Includes(operationName, StrNotification \o StrService)
          THEN StripPrefix(StripVerb(operationName, StrNotification \o StrService), StrGet)
          ELSE StripPrefix(
                 StripPrefix(RemoveFirst(StripVerb(operationName, <<>>), StrService),
                             StrUser),
                 StrBooking)
  IN  Strget \o shortened

(***************************************************************************)
(* C29: the two copies of the naming inference agree: for every operation  *)
(* name, extractServiceName and extractShortName of the cache-utils plugin *)
(* return what extractServiceName and extractShortName of the              *)
(* README-generator plugin return.                                         *)
(***************************************************************************)
C29_CopiesAgree ==
  /\ nPc \in {"done", "rendered"} => inferred = ReadmeExtractServiceName(opName)
  /\ nPc = "rendered" => shortName = ReadmeExtractShortName(opName)

\* GetBookingRequest: both copies give bookingrequests and getRequest.
C29_Witness ==
  /\ nPc = "rendered"
  /\ opName = StrGet \o StrBooking \o StrRequest
  /\ inferred = <<"b", "o", "o", "k", "i", "n", "g", "r", "e", "q", "u", "e", "s", "t", "s">>
  /\ ReadmeExtractServiceName(opName) = inferred
  /\ shortName = <<"g", "e", "t", "R", "e", "q", "u", "e", "s", "t">>
  /\ ReadmeExtractShortName(opName) = shortName

(***************************************************************************)
(* The codegen runner script (part_002 196-317): runCodegen,               *)
(* formatGeneratedFiles and the CLI entry.                                 *)
(***************************************************************************)
\* The default of `config` (line 207) and the directory formatGeneratedFiles
\* looks for (line 257), both resolved against process.cwd().
DefaultConfigPath == "src/libs/gql/codegen.config.ts"

GenDir == "src/libs/gql/__gen__"

RunnerPaths == {DefaultConfigPath, "custom/codegen.ts", GenDir}

\* The options object the argument loop (lines 289-306) can build: --watch
\* sets watch to true, --no-format sets format to false, --config sets config.
RunnerOptions ==
  [watch : {Undefined, Some(TRUE)},
   config : {Undefined, Some("custom/codegen.ts")},
   format : {Undefined, Some(FALSE)}]

\* The code of a 'close' event: an exit code, or null (here undefined) for a
\* child a signal ended.
CloseCodes == {Some(0), Some(1), Some(127), Undefined}

\* const { watch = false, config = '...', format = true } = options  (line 207)
RunnerWatch == OrDefault(runnerOptions.watch, FALSE)

RunnerConfig == OrDefault(runnerOptions.config, DefaultConfigPath)

RunnerFormat == OrDefault(runnerOptions.format, TRUE)

\* `code === 0` (lines 241, 276)
CodeIsZero(code) == code = Some(0)

ShouldFormat_always(format, watch) == format

\* `format && !watch` (line 243)
ShouldFormat(format, watch) == format /\ ~watch

\* The args of the generator (lines 221-224).
GeneratorArgs ==
  IF RunnerWatch THEN <<"--config", RunnerConfig, "--watch">>
  ELSE <<"--config", RunnerConfig>>

RunnerInit ==
  /\ runnerOptions \in RunnerOptions
  /\ fileSystem \in SUBSET RunnerPaths
  /\ generator = NoProcess
  /\ formatter = NoProcess
  /\ exitStatus = Undefined
  /\ rPc = "start"
  /\ cgPc = "idle"
  /\ options = [endpoints |-> <<>>, baseOutputDir |-> Undefined,
                reactQueryVersion |-> Undefined, appName |-> Undefined]
  /\ CodegenIdle
  /\ EnvIdle
  /\ UtilsIdle
  /\ NamingIdle
  /\ PluginIdle
  /\ FetcherIdle

\* runCodegen(options) up to the returned promise (lines 206-238): a missing
\* config file ends the process with status 1, otherwise the generator is
\* spawned.
RunCodegen ==
  /\ rPc = "start"
  /\ IF RunnerConfig \notin fileSystem
       THEN /\ exitStatus' = Some(1)
            /\ rPc' = "exited"
            /\ UNCHANGED generator
       ELSE /\ generator' = [state |-> "running", code |-> Undefined,
                              args |-> GeneratorArgs]
            /\ rPc' = "generating"
            /\ UNCHANGED exitStatus
  /\ UNCHANGED <<runnerOptions, fileSystem, formatter,
                 codegenVars, utilsVars, namingVars, pluginVars, fetcherVars>>

\* codegen.on('close', async (code) => ...) with formatGeneratedFiles up to
\* its returned promise (lines 240-250, 256-270).  The generator may have
\* written the __gen__ directory.
GeneratorClose(code, wrote) ==
  /\ rPc = "generating"
  /\ generator.state = "running"
  /\ generator' = [generator EXCEPT !.state = "closed", !.code = code]
  /\ fileSystem' = IF wrote THEN fileSystem \cup {GenDir} ELSE fileSystem
  /\ IF CodeIsZero(code)
       THEN IF ShouldFormat(RunnerFormat, RunnerWatch) /\ GenDir \in fileSystem'
              THEN /\ formatter' = [state |-> "running", code |-> Undefined,
                                     args |-> <<"check", "--write", GenDir>>]
                   /\ rPc' = "formatting"
              ELSE /\ rPc' = "resolved"
                   /\ UNCHANGED formatter
       ELSE /\ rPc' = "rejected"
            /\ UNCHANGED formatter
  /\ UNCHANGED <<runnerOptions, exitStatus,
                 codegenVars, utilsVars, namingVars, pluginVars, fetcherVars>>

\* codegen.on('error', ...) (lines 251-254): the generator could not be
\* started.
GeneratorError ==
  /\ rPc = "generating"
  /\ generator.state = "running"
  /\ generator' = [generator EXCEPT !.state = "failed"]
  /\ rPc' = "rejected"
  /\ UNCHANGED <<runnerOptions, fileSystem, formatter, exitStatus,
                 codegenVars, utilsVars, namingVars, pluginVars, fetcherVars>>

\* The 'close' event that follows a spawn failure carries a negative code:
\* the handler rejects the promise that is rejected already.
GeneratorCloseAfterError ==
  /\ rPc = "rejected"
  /\ generator.state = "failed"
  /\ generator' = [generator EXCEPT !.state = "closed", !.code = Some(-2)]
  /\ UNCHANGED <<runnerOptions, fileSystem, formatter, exitStatus, rPc,
                 codegenVars, utilsVars, namingVars, pluginVars, fetcherVars>>

\* biome.on('close', (code) => ...) (lines 275-282) and the continuation of
\* the generator's close handler (line 246).
FormatterClose(code) ==
  /\ rPc = "formatting"
  /\ formatter.state = "running"
  /\ formatter' = [formatter EXCEPT !.state = "closed", !.code = code]
  /\ rPc' = "resolved"
  /\ UNCHANGED <<runnerOptions, fileSystem, generator, exitStatus,
                 codegenVars, utilsVars, namingVars, pluginVars, fetcherVars>>

\* biome.on('error', ...) (lines 284-287)
FormatterError ==
  /\ rPc = "formatting"
  /\ formatter.state = "running"
  /\ formatter' = [formatter EXCEPT !.state = "failed"]
  /\ rPc' = "resolved"
  /\ UNCHANGED <<runnerOptions, fileSystem, generator, exitStatus,
                 codegenVars, utilsVars, namingVars, pluginVars, fetcherVars>>

\* The CLI entry after `await runCodegen(options)` (lines 309-312): the
\* process ends with status 0.
MainCompleted ==
  /\ rPc = "resolved"
  /\ exitStatus' = Some(0)
  /\ rPc' = "exited"
  /\ UNCHANGED <<runnerOptions, fileSystem, generator, formatter,
                 codegenVars, utilsVars, namingVars, pluginVars, fetcherVars>>

\* The catch of the CLI entry (lines 313-316): process.exit(1).
MainCatches ==
  /\ rPc = "rejected"
  /\ exitStatus' = Some(1)
  /\ rPc' = "exited"
  /\ UNCHANGED <<runnerOptions, fileSystem, generator, formatter,
                 codegenVars, utilsVars, namingVars, pluginVars, fetcherVars>>

RunnerNext ==
  \/ RunCodegen
  \/ \E code \in CloseCodes : \E wrote \in BOOLEAN : GeneratorClose(code, wrote)
  \/ GeneratorError
  \/ GeneratorCloseAfterError
  \/ \E code \in CloseCodes : FormatterClose(code)
  \/ FormatterError
  \/ MainCompleted
  \/ MainCatches

SpecRunner == RunnerInit /\ [][RunnerNext]_vars

(***************************************************************************)
(* C30: in every run of the codegen runner the formatter is started only   *)
(* after the generator child process has closed with exit code 0, and only *)
(* when formatting is enabled and watch mode is off; a missing config file *)
(* ends the run with exit status 1 without spawning the generator; a       *)
(* non-zero generator exit code ends the run with exit status 1 without    *)
(* formatting; a failing or unavailable formatter never fails the run.     *)
(***************************************************************************)
C30_RunnerOrder ==
  LET watch == runnerOptions.watch = {TRUE}
      format == runnerOptions.format # {FALSE}
      config == IF runnerOptions.config = {} THEN "src/libs/gql/codegen.config.ts"
                ELSE CHOOSE c \in runnerOptions.config : TRUE
  IN  /\ formatter.state # "none" =>
           /\ generator.state = "closed"
           /\ generator.code = {0}
           /\ format /\ ~watch
      /\ (rPc # "idle" /\ rPc # "start" /\ config \notin fileSystem) =>
           /\ rPc = "exited"
           /\ exitStatus = {1}
           /\ generator.state = "none"
           /\ formatter.state = "none"
      /\ (generator.state = "closed" /\ generator.code # {0}) =>
           /\ formatter.state = "none"
           /\ rPc \in {"rejected", "exited"}
           /\ rPc = "exited" => exitStatus = {1}
      /\ (rPc = "exited" /\ formatter.state # "none") => exitStatus = {0}
      /\ exitStatus # {} <=> rPc = "exited"

\* A run whose generator closed with 0 and whose formatter closed with 127
\* (biome not installed) ended with status 0.
C30_Witness ==
  /\ rPc = "exited"
  /\ generator.state = "closed"
  /\ generator.code = {0}
  /\ formatter.state = "closed"
  /\ formatter.code = {127}
  /\ exitStatus = {0}

====
